---------------------------- MODULE Spec2Model ----------------------------
(***************************************************************************)
(* Model of cfr_part_normalization.py: the free-text normalizer that turns *)
(* a raw cfrPart string into a status and a de-duplicated list of          *)
(* {title, part} references.                                               *)
(*                                                                         *)
(* A Python string is a sequence of one-character strings; the regular     *)
(* expressions of the module are operators over (string, position) that    *)
(* follow the matching order of Python's re engine (leftmost match,        *)
(* greedy/lazy quantifiers, look-behind and look-ahead).  Positions are    *)
(* 1-based; an "end" is the position just after the last matched           *)
(* character, and 0 stands for "no match".                                 *)
(***************************************************************************)
EXTENDS Integers, Sequences, FiniteSets, TLC

(***************************************************************************)
(* Characters                                                              *)
(***************************************************************************)
\* U+2013 and U+2014, the two dashes line 69 replaces by "-".
EN_DASH == "u2013"
EM_DASH == "u2014"

DigitChars == {"0", "1", "2", "3", "4", "5", "6", "7", "8", "9"}

LowerLetters ==
  {"a", "b", "c", "d", "e", "f", "g", "h", "i", "j", "k", "l", "m",
   "n", "o", "p", "q", "r", "s", "t", "u", "v", "w", "x", "y", "z"}

UpperLetters ==
  {"A", "B", "C", "D", "E", "F", "G", "H", "I", "J", "K", "L", "M",
   "N", "O", "P", "Q", "R", "S", "T", "U", "V", "W", "X", "Y", "Z"}

\* \w of the re module, on the characters of the model.
WordChars == DigitChars \cup LowerLetters \cup UpperLetters \cup {"_"}

\* \s of the re module and the characters str.strip() removes.
WhitespaceChars == {" ", "\t", "\n", "\r", "\f"}

\* re.IGNORECASE: both the pattern and the text are compared in lower case.
ToLower ==
  [c \in UpperLetters |->
     CASE c = "A" -> "a" [] c = "B" -> "b" [] c = "C" -> "c" [] c = "D" -> "d"
       [] c = "E" -> "e" [] c = "F" -> "f" [] c = "G" -> "g" [] c = "H" -> "h"
       [] c = "I" -> "i" [] c = "J" -> "j" [] c = "K" -> "k" [] c = "L" -> "l"
       [] c = "M" -> "m" [] c = "N" -> "n" [] c = "O" -> "o" [] c = "P" -> "p"
       [] c = "Q" -> "q" [] c = "R" -> "r" [] c = "S" -> "s" [] c = "T" -> "t"
       [] c = "U" -> "u" [] c = "V" -> "v" [] c = "W" -> "w" [] c = "X" -> "x"
       [] c = "Y" -> "y" [] c = "Z" -> "z"]

Lower(c) == IF c \in UpperLetters THEN ToLower[c] ELSE c

\* The character at position i, or "" outside the string.
Ch(s, i) == IF i >= 1 /\ i <= Len(s) THEN s[i] ELSE ""

IsDigit(c) == c \in DigitChars
IsWord(c) == c \in WordChars
IsSpace(c) == c \in WhitespaceChars

\* \b between positions i-1 and i.
Boundary(s, i) == IsWord(Ch(s, i - 1)) # IsWord(Ch(s, i))

\* The literal w (given in lower case) at position i, ignoring case: the
\* position after it, or 0.
LitEnd(s, i, w) ==
  IF i >= 1 /\ i + Len(w) - 1 <= Len(s)
     /\ \A k \in 1..Len(w) : Lower(s[i + k - 1]) = w[k]
  THEN i + Len(w)
  ELSE 0

\* The position after the longest run of digits (\d*) starting at i.
RECURSIVE DigitsEnd(_, _)
DigitsEnd(s, i) == IF IsDigit(Ch(s, i)) THEN DigitsEnd(s, i + 1) ELSE i

\* The position after the longest run of whitespace (\s*) starting at i.
RECURSIVE SpacesEnd(_, _)
SpacesEnd(s, i) == IF IsSpace(Ch(s, i)) THEN SpacesEnd(s, i + 1) ELSE i

\* The least element of a non-empty set of positions.
MinOf(S) == CHOOSE x \in S : \A y \in S : x <= y

\* The least position of a set of positions, or 0 when there is none: where
\* a search finds its first match.
FirstOrZero(S) == IF S = {} THEN 0 ELSE MinOf(S)

\* s[a:b] of Python on 1-based positions: the characters a .. b-1.
Slice(s, a, b) == SubSeq(s, a, b - 1)

\* TRUE, once x has a value: an operator's arguments are evaluated when they
\* are first used, and this uses x.
Evaluated(x) == x = x

\* str.strip(): without leading and trailing whitespace.
RECURSIVE LStrip(_)
LStrip(s) == IF s # <<>> /\ IsSpace(Head(s)) THEN LStrip(Tail(s)) ELSE s

RECURSIVE RStrip(_)
RStrip(s) ==
  IF s # <<>> /\ IsSpace(s[Len(s)]) THEN RStrip(SubSeq(s, 1, Len(s) - 1)) ELSE s

Strip(s) == RStrip(LStrip(s))

\* str.rstrip(chars): without the trailing characters that are in chars.
RECURSIVE RStripChars(_, _)
RStripChars(s, chars) ==
  IF s # <<>> /\ s[Len(s)] \in chars
  THEN RStripChars(SubSeq(s, 1, Len(s) - 1), chars)
  ELSE s


(***************************************************************************)
(* Program constants                                                       *)
(***************************************************************************)
\* \d{1,4}: the longest integer portion RANGE_RE and NUMBER_RE accept.
MAX_INT_DIGITS == 4
\* The guardrail of _expand_range: e_i - s_i > 300.
RANGE_GUARD == 300
\* text[:120]: the window of a body without a Part keyword.
WINDOW_CHARS == 120

(***************************************************************************)
(* TITLE_SEGMENT_RE                                                        *)
(*   (?P<title>\d+)\s*CFR\b(?P<body>.*?)(?=(?:\b\d+\s*CFR\b)|$)            *)
(***************************************************************************)
\* \d+\s*CFR\b at position i: the position after it, or 0.  \d+ and \s* are
\* greedy and giving back a character never helps (a digit or a blank is
\* left where \s*CFR has to go on), so the match is the longest runs.
TitleMarkerAfter(s, i, d, e) ==
  IF d > i /\ e # 0 /\ Boundary(s, e) THEN e ELSE 0

TitleMarkerDigits(s, i, d) ==
  TitleMarkerAfter(s, i, d, LitEnd(s, SpacesEnd(s, d), <<"c", "f", "r">>))

TitleMarkerEnd(s, i) == TitleMarkerDigits(s, i, DigitsEnd(s, i))

\* The look-ahead that ends a body at position p: the next title marker
\* after a word boundary, or $ (the end, or the newline that ends the text).
BodyStop(s, p) ==
  \/ p = Len(s) + 1
  \/ p = Len(s) /\ s[p] = "\n"
  \/ Boundary(s, p) /\ TitleMarkerEnd(s, p) # 0

\* The match that starts at position i and whose marker ends at e: its
\* groups, and p, where the lazy body stops and the next search starts.
TitleSegment(s, i, e, p) ==
  [title |-> Slice(s, i, DigitsEnd(s, i)), body |-> Slice(s, e, p), start |-> i]

\* TITLE_SEGMENT_RE.finditer(s) from position pos: the groups of the
\* non-overlapping matches, left to right.
RECURSIVE TitleSegmentsFrom(_, _)
TitleSegmentsTo(s, i, e, p) ==
  <<TitleSegment(s, i, e, p)>> \o TitleSegmentsFrom(s, p)

TitleSegmentsWith(s, i, e) ==
  TitleSegmentsTo(s, i, e, MinOf({q \in e..(Len(s) + 1) : BodyStop(s, q)}))

TitleSegmentsAt(s, i) ==
  IF i = 0 THEN <<>> ELSE TitleSegmentsWith(s, i, TitleMarkerEnd(s, i))

TitleSegmentsFrom(s, pos) ==
  TitleSegmentsAt(s, FirstOrZero({i \in pos..Len(s) : TitleMarkerEnd(s, i) # 0}))

TITLE_SEGMENT_RE(s) == TitleSegmentsFrom(s, 1)

(***************************************************************************)
(* PART_HINT_RE   \bPart(?:s)?\b                                           *)
(***************************************************************************)
\* (?:s)?\b after the literal that ends at e (0: the literal failed).
OptionalSThenBoundary(s, e) ==
  e # 0 /\ (Boundary(s, e) \/ (Lower(Ch(s, e)) = "s" /\ Boundary(s, e + 1)))

PartHintAt(s, i) ==
  Boundary(s, i) /\ OptionalSThenBoundary(s, LitEnd(s, i, <<"p", "a", "r", "t">>))

\* PART_HINT_RE.search(s): the start of the first match, or 0.
PART_HINT_RE(s) == FirstOrZero({i \in 1..Len(s) : PartHintAt(s, i)})

(***************************************************************************)
(* STOP_WORD_RE                                                            *)
(*   \b(?:subchapter|chapter|section|parts?\s+of|u\.?s\.?c\.?|fr\s+doc|    *)
(*        rins?)\b                                                         *)
(***************************************************************************)
\* \b at e, the end of what matched before (0: it failed).
EndsAtBoundary(s, e) == e # 0 /\ Boundary(s, e)

\* A literal word followed by \b.
StopLiteral(s, i, w) == EndsAtBoundary(s, LitEnd(s, i, w))

\* \s+ at position q: the position after it, or 0.
SomeSpacesEnd(s, q) == IF q # 0 /\ IsSpace(Ch(s, q)) THEN SpacesEnd(s, q) ELSE 0

\* s? at position p (0: what came before failed).
OptionalSEnd(s, p) == IF p # 0 /\ Lower(Ch(s, p)) = "s" THEN p + 1 ELSE p

\* parts?\s+of\b
StopPartsOf(s, i) ==
  EndsAtBoundary(s,
    LitEnd(s, SomeSpacesEnd(s, OptionalSEnd(s, LitEnd(s, i, <<"p", "a", "r", "t">>))),
           <<"o", "f">>))

\* One letter (given in lower case) at position i, ignoring case: the
\* position after it, or 0.  Position 0 stands for a failed match before.
LetterEnd(s, i, c) == IF i # 0 /\ Lower(Ch(s, i)) = c THEN i + 1 ELSE 0

\* \.? at position i.
OptionalDotEnd(s, i) == IF i # 0 /\ Ch(s, i) = "." THEN i + 1 ELSE i

\* \.?\b after the c that ends at e: when a "." follows, the \.? either takes
\* it (if a word character comes next) or gives it back (the c then ends at a
\* boundary); without it the c has to end at a boundary.
UscTail(s, e) ==
  e # 0 /\ (Boundary(s, e) \/ (Ch(s, e) = "." /\ Boundary(s, e + 1)))

\* u\.?s\.?c\.?\b
StopUsc(s, i) ==
  UscTail(s, LetterEnd(s, OptionalDotEnd(s,
               LetterEnd(s, OptionalDotEnd(s, LetterEnd(s, i, "u")), "s")), "c"))

\* fr\s+doc\b
StopFrDoc(s, i) ==
  EndsAtBoundary(s,
    LitEnd(s, SomeSpacesEnd(s, LitEnd(s, i, <<"f", "r">>)), <<"d", "o", "c">>))

\* rins?\b
StopRin(s, i) == OptionalSThenBoundary(s, LitEnd(s, i, <<"r", "i", "n">>))

StopWordAt(s, i) ==
  /\ Boundary(s, i)
  /\ \/ StopLiteral(s, i, <<"s", "u", "b", "c", "h", "a", "p", "t", "e", "r">>)
     \/ StopLiteral(s, i, <<"c", "h", "a", "p", "t", "e", "r">>)
     \/ StopLiteral(s, i, <<"s", "e", "c", "t", "i", "o", "n">>)
     \/ StopPartsOf(s, i)
     \/ StopUsc(s, i)
     \/ StopFrDoc(s, i)
     \/ StopRin(s, i)

\* STOP_WORD_RE.search(s): the start of the first match, or 0.
STOP_WORD_RE(s) == FirstOrZero({i \in 1..Len(s) : StopWordAt(s, i)})

(***************************************************************************)
(* RANGE_RE and NUMBER_RE                                                  *)
(*   (?<!\d)(\d{1,4}(?:\.\d+)?)\s*(?:-|to|through|thru)\s*                 *)
(*          (\d{1,4}(?:\.\d+)?)(?!\d)                                      *)
(*   (?<!\d)(\d{1,4}(?:\.\d+)?)(?!\d)                                      *)
(***************************************************************************)
\* NumberEndAfter for \d{1,3}.
NumberEndAfter_ThreeDigits(s, i, d) ==
  IF d = i \/ d - i > MAX_INT_DIGITS - 1 THEN 0
  ELSE IF Ch(s, d) = "." /\ IsDigit(Ch(s, d + 1)) THEN DigitsEnd(s, d + 1)
  ELSE d

\* \d{1,4}(?:\.\d+)? at position i, in a context where no digit may follow,
\* d being the end of the run of digits at i: the position after the match,
\* or 0.  A run of more than four digits cannot be matched, since a shorter
\* prefix is always followed by a digit.
NumberEndAfter(s, i, d) ==
  IF d = i \/ d - i > MAX_INT_DIGITS THEN 0
  ELSE IF Ch(s, d) = "." /\ IsDigit(Ch(s, d + 1)) THEN DigitsEnd(s, d + 1)
  ELSE d

NumberEnd(s, i) == NumberEndAfter(s, i, DigitsEnd(s, i))

\* (?:-|to|through|thru) at position j: the position after it, or 0.
SeparatorEnd(s, j) ==
  IF Ch(s, j) = "-" THEN j + 1
  ELSE IF LitEnd(s, j, <<"t", "o">>) # 0 THEN j + 2
  ELSE IF LitEnd(s, j, <<"t", "h", "r", "o", "u", "g", "h">>) # 0 THEN j + 7
  ELSE IF LitEnd(s, j, <<"t", "h", "r", "u">>) # 0 THEN j + 4
  ELSE 0

\* \s* at position b, the end of what matched before (0: it failed).
SpacesEndOrZero(s, b) == IF b = 0 THEN 0 ELSE SpacesEnd(s, b)

\* \s*(?:-|to|through|thru)\s* after the first number, which ends at a: the
\* position where the second number has to start, or 0.
SecondNumberStart(s, a) ==
  SpacesEndOrZero(s, SeparatorEnd(s, SpacesEndOrZero(s, a)))

\* RANGE_RE at position i: the end of the match (0: none) and its groups,
\* given the end a of the first number, the start c and the end e of the
\* second.
RangeMatchOf(s, i, a, c, e) ==
  IF ~IsDigit(Ch(s, i - 1)) /\ a # 0 /\ c # 0 /\ e # 0
  THEN [start |-> i, end |-> e, g1 |-> Slice(s, i, a), g2 |-> Slice(s, c, e)]
  ELSE [start |-> i, end |-> 0, g1 |-> <<>>, g2 |-> <<>>]

RangeMatchSecond(s, i, a, c) ==
  RangeMatchOf(s, i, a, c, IF c = 0 THEN 0 ELSE NumberEnd(s, c))

RangeMatchFirst(s, i, a) == RangeMatchSecond(s, i, a, SecondNumberStart(s, a))

RangeMatchAt(s, i) == RangeMatchFirst(s, i, NumberEnd(s, i))

\* The first position >= pos where RANGE_RE matches, or 0.
RangeSearch(s, pos) ==
  FirstOrZero({i \in pos..Len(s) : RangeMatchAt(s, i).end # 0})

\* RANGE_RE.finditer(s) from position pos: the matches, left to right.
RECURSIVE RangeMatchesFrom(_, _)
RangeMatchThenRest(s, m) == <<m>> \o RangeMatchesFrom(s, m.end)

RangeMatchesAt(s, i) ==
  IF i = 0 THEN <<>> ELSE RangeMatchThenRest(s, RangeMatchAt(s, i))

RangeMatchesFrom(s, pos) == RangeMatchesAt(s, RangeSearch(s, pos))

RANGE_RE_finditer(s) == RangeMatchesFrom(s, 1)

\* RANGE_RE.sub(" ", s): the text from position pos on, with each of the
\* matches (those of finditer that are left) replaced by one blank.
RECURSIVE RangeSubFrom(_, _, _)
RangeSubFrom(s, pos, ms) ==
  IF ms = <<>> THEN Slice(s, pos, Len(s) + 1)
  ELSE Slice(s, pos, Head(ms).start) \o <<" ">> \o RangeSubFrom(s, Head(ms).end, Tail(ms))

RANGE_RE_sub(s, ms) == RangeSubFrom(s, 1, ms)

\* NUMBER_RE at position i: the position after the match, or 0.
NumberMatchEnd(s, i) ==
  IF IsDigit(Ch(s, i - 1)) THEN 0 ELSE NumberEnd(s, i)

\* NUMBER_RE.findall(s) from position pos.
RECURSIVE NumberTokensFrom(_, _)
NumberTokenThenRest(s, i, e) == <<Slice(s, i, e)>> \o NumberTokensFrom(s, e)

NumberTokensAt(s, i) ==
  IF i = 0 THEN <<>> ELSE NumberTokenThenRest(s, i, NumberMatchEnd(s, i))

NumberTokensFrom(s, pos) ==
  NumberTokensAt(s, FirstOrZero({i \in pos..Len(s) : NumberMatchEnd(s, i) # 0}))

NUMBER_RE_findall(s) == NumberTokensFrom(s, 1)

(***************************************************************************)
(* int() and str()                                                         *)
(***************************************************************************)
DigitValue(c) ==
  CASE c = "0" -> 0 [] c = "1" -> 1 [] c = "2" -> 2 [] c = "3" -> 3
    [] c = "4" -> 4 [] c = "5" -> 5 [] c = "6" -> 6 [] c = "7" -> 7
    [] c = "8" -> 8 [] c = "9" -> 9

DigitChar(n) ==
  CASE n = 0 -> "0" [] n = 1 -> "1" [] n = 2 -> "2" [] n = 3 -> "3"
    [] n = 4 -> "4" [] n = 5 -> "5" [] n = 6 -> "6" [] n = 7 -> "7"
    [] n = 8 -> "8" [] n = 9 -> "9"

\* The strings int() is given here are runs of digits (regex groups and the
\* output of str()); any other string raises ValueError.
IsIntLiteral(s) == s # <<>> /\ \A k \in 1..Len(s) : IsDigit(s[k])

\* int(s) for a run of digits.
RECURSIVE ParseInt(_)
ParseInt(s) ==
  IF s = <<>> THEN 0
  ELSE 10 * ParseInt(SubSeq(s, 1, Len(s) - 1)) + DigitValue(s[Len(s)])

\* str(n) for n >= 0.
RECURSIVE IntToStr(_)
IntToStr(n) ==
  IF n < 10 THEN <<DigitChar(n)>>
  ELSE Append(IntToStr(n \div 10), DigitChar(n % 10))

(***************************************************************************)
(* _canonical_number and _expand_range                                     *)
(***************************************************************************)
\* "." in s
HasDot(s) == \E k \in 1..Len(s) : s[k] = "."

\* Lines 40-48, on the stripped argument.
CanonicalStripped(r) ==
  IF r = <<>> THEN r
  ELSE IF HasDot(r) THEN RStripChars(RStripChars(r, {"0"}), {"."})
  ELSE IF IsIntLiteral(r) THEN IntToStr(ParseInt(r))
  ELSE r

_canonical_number(raw) == CanonicalStripped(Strip(raw))

\* ExpandBetween with the guardrail one integer earlier.
ExpandBetween_AtGuard(s_i, e_i) ==
  IF e_i - s_i >= RANGE_GUARD
  THEN <<IntToStr(s_i), IntToStr(e_i)>>
  ELSE [k \in 1..(e_i - s_i + 1) |-> IntToStr(s_i + k - 1)]

\* Lines 63-65: [str(i) for i in range(s_i, e_i + 1)], or the two ends.
ExpandBetween(s_i, e_i) ==
  IF e_i - s_i > RANGE_GUARD
  THEN <<IntToStr(s_i), IntToStr(e_i)>>
  ELSE [k \in 1..(e_i - s_i + 1) |-> IntToStr(s_i + k - 1)]

\* ExpandInts without the swap of lines 60-61.
ExpandInts_NoSwap(a, b) == ExpandBetween(a, b)

\* Lines 60-61: if s_i > e_i: s_i, e_i = e_i, s_i
ExpandInts(a, b) == IF a > b THEN ExpandBetween(b, a) ELSE ExpandBetween(a, b)

\* _expand_range going by the integer portions of its arguments.
_expand_range_Truncating(start, end) ==
  ExpandInts(ParseInt(Slice(start, 1, DigitsEnd(start, 1))),
             ParseInt(Slice(end, 1, DigitsEnd(end, 1))))

_expand_range(start, end) ==
  IF HasDot(start) \/ HasDot(end)
  THEN <<_canonical_number(start), _canonical_number(end)>>
  ELSE IF ~(IsIntLiteral(start) /\ IsIntLiteral(end))
  THEN <<_canonical_number(start), _canonical_number(end)>>
  ELSE ExpandInts(ParseInt(start), ParseInt(end))

(***************************************************************************)
(* _extract_parts_from_body                                                *)
(***************************************************************************)
\* body.replace("–", "-").replace("—", "-")
ReplaceDashes(s) ==
  [k \in 1..Len(s) |-> IF s[k] \in {EN_DASH, EM_DASH} THEN "-" ELSE s[k]]

\* Lines 86-88 and 93-95: append the canonical token unless it is empty or
\* already seen.  acc is the pair of locals (parts, seen).
AddNormalized(acc, normalized) ==
  IF normalized # <<>> /\ normalized \notin acc.seen
  THEN [parts |-> Append(acc.parts, normalized),
        seen |-> acc.seen \cup {normalized}]
  ELSE acc

\* Lines 85-88 and 92-95.
AddPart(acc, token) == AddNormalized(acc, _canonical_number(token))

\* The inner for loops (lines 84-88 and 91-95): AddPart over
\* tokens[lo..hi], in order.  The list is walked half by half, and the first
\* half is evaluated (Evaluated) before the second is entered, which keeps
\* the depth of the evaluation logarithmic in the length of the list.
RECURSIVE AddPartsBetween(_, _, _, _)
AddPartsBetween(acc, tokens, lo, hi) ==
  IF lo > hi THEN acc
  ELSE IF lo = hi THEN AddPart(acc, tokens[lo])
  ELSE LET mid == (lo + hi) \div 2
           first == AddPartsBetween(acc, tokens, lo, mid)
       IN IF Evaluated(first) THEN AddPartsBetween(first, tokens, mid + 1, hi)
          ELSE acc

AddParts(acc, tokens) == AddPartsBetween(acc, tokens, 1, Len(tokens))

\* Lines 83-88: for every range match, its expansion, in order.
RECURSIVE AddRanges(_, _)
AddRanges(acc, ms) ==
  IF ms = <<>> THEN acc
  ELSE AddRanges(AddParts(acc, _expand_range(Head(ms).g1, Head(ms).g2)), Tail(ms))

\* Window without bounds: the whole text.
Window_WholeText(text, hint) == text

\* Line 74: text[part_hint.start():] if part_hint else text[:120], where
\* hint is the start of the first Part keyword (0: none).
Window(text, hint) ==
  IF hint # 0 THEN Slice(text, hint, Len(text) + 1)
  ELSE IF Len(text) > WINDOW_CHARS THEN Slice(text, 1, WINDOW_CHARS + 1)
  ELSE text

\* CutAt that never cuts.
CutAt_Never(window, stop) == window

\* Lines 77-78: candidate[:stop_match.start()], where stop is the start of
\* the first stop phrase (0: none).
CutAt(window, stop) == IF stop # 0 THEN Slice(window, 1, stop) ELSE window

CutAtStopWord(window) == CutAt(window, STOP_WORD_RE(window))

\* Lines 73-78: the working window of a stripped body.
Candidate(text) == CutAtStopWord(Window(text, PART_HINT_RE(text)))

\* PartsOfCandidate with the two loops in the other order.
PartsOfCandidate_SinglesFirst(candidate, ms) ==
  AddRanges(AddParts([parts |-> <<>>, seen |-> {}],
                     NUMBER_RE_findall(RANGE_RE_sub(candidate, ms))), ms).parts

\* Lines 80-97: the parts of the working window, ms being the matches of
\* RANGE_RE in it.
PartsOfCandidate(candidate, ms) ==
  AddParts(AddRanges([parts |-> <<>>, seen |-> {}], ms),
           NUMBER_RE_findall(RANGE_RE_sub(candidate, ms))).parts

PartsOfWindow(candidate) == PartsOfCandidate(candidate, RANGE_RE_finditer(candidate))

\* Lines 70-78, on the stripped body.
PartsOfText(text) == IF text = <<>> THEN <<>> ELSE PartsOfWindow(Candidate(text))

_extract_parts_from_body(body) == PartsOfText(Strip(ReplaceDashes(body)))

(***************************************************************************)
(* normalize_cfr_part as a state machine                                   *)
(***************************************************************************)
VARIABLES
  raw_cfr_part,   \* the argument: None or a string
  pc,             \* "start", "loop" (the for loop of line 122) or "done"
  raw,            \* the local raw (line 114)
  matches,        \* what TITLE_SEGMENT_RE.finditer(raw) has still to yield
  references,     \* the local references (line 118)
  seen_refs,      \* the local seen_refs (line 119)
  had_cfr_title,  \* the local had_cfr_title (line 120)
  result,         \* the returned dict, once pc = "done"
  title_arg,      \* the argument title of extract_parts_for_title, if called
  title_parts,    \* what extract_parts_for_title returns, once pc = "returned"
  other,          \* the locals of a second call that runs at the same time
  insert,         \* the locals of insert_documents.run, if called
  ingest,         \* the locals of ingest_dockets, if called
  request,        \* the locals of fetch_agency_documents.make_request, if called
  fetch           \* the locals of fetch_docket_documents, if called

vars ==
  <<raw_cfr_part, pc, raw, matches, references, seen_refs, had_cfr_title, result,
    title_arg, title_parts, other, insert, ingest, request, fetch>>

\* The frames of the scripts that load and fetch the documents.
script_vars == <<insert, ingest, request, fetch>>

\* What normalize_cfr_part does not touch: the frame of extract_parts_for_title,
\* the other call and the scripts.
caller_vars == <<title_arg, title_parts, other, insert, ingest, request, fetch>>

\* An optional string: Python's None, or a str.
None == [isNone |-> TRUE, str |-> <<>>]
Str(s) == [isNone |-> FALSE, str |-> s]

NoResult == [raw |-> None, status |-> "pending", references |-> <<>>]

\* normalize_cfr_part called on its own: no title argument.
NoTitle == [isInt |-> FALSE, str |-> <<"n", "o", "n", "e">>, int |-> 0]

\* No second call.
NoCall == [pc |-> "none"]

Statuses == {"empty", "parsed", "missing_title", "unparsed", "no_cfr"}

\* No script runs.
NoScripts ==
  /\ insert = NoCall
  /\ ingest = NoCall
  /\ request = NoCall
  /\ fetch = NoCall

(***************************************************************************)
(* The inputs                                                              *)
(***************************************************************************)
\* How many fragments an input is made of, at most.
MaxFrags == 3
\* Integer ranges a-b with b - a in 0..SmallSpan and within GuardDelta of
\* the guard are part of the inputs.
SmallSpan == 2
GuardDelta == 1

Fragments ==
  {<<"4", "2", " ", "C", "F", "R">>,
   <<" ", "0", "4", "2", " ", "c", "f", "r">>,
   <<"a", "4", "5", " ", "C", "F", "R">>,
   <<" ", "P", "a", "r", "t">>,
   <<" ", "p", "a", "r", "t", "s">>,
   <<" ", "4", "1", "2">>,
   <<" ", "0", "4", "1", "2", ".", "0">>,
   <<" ", "4", "1", "0", "-", "4", "1", "2">>,
   <<" ", "R", "I", "N">>,
   <<" ">>,
   <<";">>,
   <<"4", "1", "2">>}

\* The strings made of at most n fragments.
RECURSIVE Concats(_)
Extended(shorter) == shorter \cup {f \o t : f \in Fragments, t \in shorter}

Concats(n) == IF n = 0 THEN {<<>>} ELSE Extended(Concats(n - 1))

FragmentInputs == Concats(MaxFrags)

RangePrefixes == {<<"4", "2", " ", "C", "F", "R", " ", "P", "a", "r", "t", "s", " ">>, <<"7", " ", "c", "f", "r", " ">>}
RangeSeparators ==
  {<<"-">>, <<" ", "t", "o", " ">>, <<" ", "t", "h", "r", "o", "u", "g", "h", " ">>, <<"T", "H", "R", "U">>, <<EN_DASH>>}
RangeLows == {1, 100}
RangeSpans ==
  (0..SmallSpan) \cup ((RANGE_GUARD - GuardDelta)..(RANGE_GUARD + GuardDelta))

RangeInputs ==
  {p \o a \o sep \o b :
     p \in RangePrefixes, sep \in RangeSeparators,
     <<a, b>> \in UNION {{<<IntToStr(lo), IntToStr(lo + d)>>,
                          <<IntToStr(lo + d), IntToStr(lo)>>} :
                           lo \in RangeLows, d \in RangeSpans}}

\* The strings of the module docstring (lines 6-10) and of the tests.
DocumentedInputs ==
  {<<"4", "2", " ", "C", "F", "R", " ", "P", "a", "r", "t", " ", "4", "1",
     "2">>,
   <<"4", "2", " ", "C", "F", "R", " ", "4", "1", "2">>,
   <<"4", "2", " ", "C", "F", "R", " ", "P", "a", "r", "t", "s", " ", "4",
     "0", "5", ",", " ", "4", "1", "7", ",", " ", "4", "2", "2", ",", " ",
     "a", "n", "d", " ", "4", "6", "0">>,
   <<"4", "2", " ", "C", "F", "R", " ", "P", "a", "r", "t", "s", " ", "4",
     "1", "0", "-", "4", "1", "2">>,
   <<"4", "2", " ", "C", "F", "R", " ", "P", "a", "r", "t", " ", "4", "1",
     "2", ";", " ", "4", "5", " ", "C", "F", "R", " ", "P", "a", "r", "t",
     " ", "1", "5", "5">>,
   <<"P", "a", "r", "t", " ", "4", "1", "2">>,
   <<"R", "I", "N", " ", "0", "9", "3", "8", "-", "A", "V", "0", "1">>,
   <<"4", "2", " ", "C", "F", "R", " ", "P", "a", "r", "t", " ", "4", "1",
     "2", ";", " ", "4", "5", " ", "C", "F", "R", " ", "P", "a", "r", "t",
     " ", "1", "5", "5", ";", " ", "4", "2", " ", "C", "F", "R", " ", "4",
     "8", "9">>,
   <<"4", "2", " ", "C", "F", "R", " ", "P", "a", "r", "t", "s", " ", "4",
     "0", "5", ",", " ", "4", "1", "2", ",", " ", "a", "n", "d", " ", "4",
     "8", "9">>,
   <<"4", "2", " ", "C", "F", "R", " ", "P", "a", "r", "t", "s", " ", "4",
     "1", "0", "-", "4", "1", "5">>}

\* A title repeated under another spelling with parts repeated, and
\* whitespace other than blanks around the text.
OtherInputs ==
  {<<"4", "2", " ", "C", "F", "R", " ", "P", "a", "r", "t", " ", "4", "1",
     "2", ";", " ", "0", "4", "2", " ", "c", "f", "r", " ", "P", "a", "r",
     "t", "s", " ", "4", "1", "1", "-", "4", "1", "2", ",", " ", "4", "1",
     "3">>,
   <<" ", "\t", "\n">>,
   <<"\t", "4", "2", " ", "C", "F", "R", " ", "7", " ", "t", "o", " ", "5",
     " ", "\n">>}

\* Texts that take the part extractor through its window, its stop phrases,
\* its ranges and its number tokens.
ExtractorInputs ==
  {\* a number before the Part keyword of a body
   <<"4", "2", " ", "C", "F", "R", " ", "7", " ", "P", "a", "r", "t", " ",
     "4", "1", "2">>,
   <<"4", "2", " ", "C", "F", "R", " ", "4", "1", "2", " ", "P", "a", "r",
     "t">>,
   \* bodies without keyword longer than the window; a number starts at
   \* offset 120 of the first, at offset 119 of the second
   <<"4", "2", " ", "C", "F", "R", " ", "4", "1", "2", ",", " ", "a", "n",
     "d", " ", "s", "o", " ", "o", "n", " ", "a", "n", "d", " ", "s", "o",
     " ", "o", "n", " ", "a", "n", "d", " ", "s", "o", " ", "o", "n", " ",
     "a", "n", "d", " ", "s", "o", " ", "o", "n", " ", "a", "n", "d", " ",
     "s", "o", " ", "o", "n", " ", "a", "n", "d", " ", "s", "o", " ", "o",
     "n", " ", "a", "n", "d", " ", "s", "o", " ", "o", "n", " ", "a", "n",
     "d", " ", "s", "o", " ", "o", "n", " ", "a", "n", "d", " ", "s", "o",
     " ", "o", "n", " ", "a", "n", "d", " ", "s", "o", " ", "o", "n", " ",
     "a", "n", "d", " ", "s", "o", " ", "o", "n", " ", "x", "y", "z", ";",
     " ", "4", "1", "3", " ", "4", "1", "4">>,
   <<"4", "2", " ", "C", "F", "R", " ", "4", "1", "2", ",", " ", "a", "n",
     "d", " ", "s", "o", " ", "o", "n", " ", "a", "n", "d", " ", "s", "o",
     " ", "o", "n", " ", "a", "n", "d", " ", "s", "o", " ", "o", "n", " ",
     "a", "n", "d", " ", "s", "o", " ", "o", "n", " ", "a", "n", "d", " ",
     "s", "o", " ", "o", "n", " ", "a", "n", "d", " ", "s", "o", " ", "o",
     "n", " ", "a", "n", "d", " ", "s", "o", " ", "o", "n", " ", "a", "n",
     "d", " ", "s", "o", " ", "o", "n", " ", "a", "n", "d", " ", "s", "o",
     " ", "o", "n", " ", "a", "n", "d", " ", "s", "o", " ", "o", "n", " ",
     "a", "n", "d", " ", "s", "o", " ", "o", "n", " ", "x", "y", "z", " ",
     "4", "1", "3", " ", "4", "1", "4">>,
   \* each stop phrase
   <<"4", "2", " ", "C", "F", "R", " ", "P", "a", "r", "t", " ", "4", "1",
     "2", " ", "c", "h", "a", "p", "t", "e", "r", " ", "5">>,
   <<"4", "2", " ", "C", "F", "R", " ", "4", "1", "2", " ", "S", "u", "b",
     "c", "h", "a", "p", "t", "e", "r", " ", "7">>,
   <<"4", "2", " ", "C", "F", "R", " ", "4", "1", "2", " ", "s", "e", "c",
     "t", "i", "o", "n", " ", "3">>,
   <<"4", "2", " ", "C", "F", "R", " ", "P", "a", "r", "t", " ", "4", "1",
     "2", ",", " ", "p", "a", "r", "t", "s", " ", " ", "o", "f", " ", "7">>,
   <<"4", "2", " ", "C", "F", "R", " ", "4", "1", "2", " ", "p", "a", "r",
     "t", " ", "o", "f", " ", "7">>,
   <<"4", "2", " ", "C", "F", "R", " ", "4", "1", "2", " ", "U", ".", "S",
     ".", "C", ".", " ", "7">>,
   <<"4", "2", " ", "C", "F", "R", " ", "4", "1", "2", " ", "u", "s", "c",
     " ", "7">>,
   <<"4", "2", " ", "C", "F", "R", " ", "4", "1", "2", " ", "F", "R", " ",
     "D", "o", "c", " ", "2", "0", "2", "4">>,
   <<"4", "2", " ", "C", "F", "R", " ", "4", "1", "2", " ", "R", "I", "N",
     "s", " ", "0", "9", "3", "8">>,
   <<"4", "2", " ", "C", "F", "R", " ", "4", "1", "2", " ", "c", "h", "a",
     "p", "t", "e", "r", "s", " ", "5">>,
   \* ranges with a decimal point
   <<"4", "2", " ", "C", "F", "R", " ", "P", "a", "r", "t", "s", " ", "1",
     ".", "5", "-", "3">>,
   <<"4", "2", " ", "C", "F", "R", " ", "3", ".", "5", "0", " ", "t", "o",
     " ", "1">>,
   <<"4", "2", " ", "C", "F", "R", " ", "0", "4", "1", "2", ".", "0", "-",
     "4", "1", "3">>,
   <<"4", "2", " ", "C", "F", "R", " ", "1", ".", "5", " ", "t", "h", "r",
     "u", " ", "9", "0", "0", ".", "2", "5">>,
   <<"4", "2", " ", "C", "F", "R", " ", "2", ".", "0", "-", "2">>,
   \* ranges and singletons mixed
   <<"4", "2", " ", "C", "F", "R", " ", "P", "a", "r", "t", "s", " ", "4",
     "0", "5", ",", " ", "4", "1", "0", "-", "4", "1", "2", ",", " ", "4",
     "1", "1">>,
   <<"4", "2", " ", "C", "F", "R", " ", "4", "1", "3", ",", " ", "3", "-",
     "1", ",", " ", "2", " ", "t", "o", " ", "4", ",", " ", "4", "0", "5",
     ",", " ", "0", "4", "0", "5">>,
   \* long runs of digits, and points
   <<"4", "2", " ", "C", "F", "R", " ", "P", "a", "r", "t", " ", "1", "2",
     "3", "4", "5">>,
   <<"4", "2", " ", "C", "F", "R", " ", "1", "2", "3", "4", "5", ".", "6",
     "7", "8">>,
   <<"4", "2", " ", "C", "F", "R", " ", "1", ".", "2", ".", "3", ",", " ",
     "4", "1", "2", ".">>}

Inputs ==
  {None} \cup {Str(s) : s \in FragmentInputs \cup RangeInputs
                              \cup DocumentedInputs \cup OtherInputs
                              \cup ExtractorInputs}

Init ==
  /\ raw_cfr_part \in Inputs
  /\ pc = "start"
  /\ raw = <<>>
  /\ matches = <<>>
  /\ references = <<>>
  /\ seen_refs = {}
  /\ had_cfr_title = FALSE
  /\ result = NoResult
  /\ title_arg = NoTitle
  /\ title_parts = <<>>
  /\ other = NoCall
  /\ NoScripts

\* return {"raw": ..., "status": ..., "references": ...}
Return(r, status, refs) ==
  /\ result' = [raw |-> r, status |-> status, references |-> refs]
  /\ pc' = "done"

(***************************************************************************)
(* The steps.  Each step is the conjunction of its condition (the path of  *)
(* if statements that leads to it) and of assignments that are always      *)
(* possible, so that a step can be taken exactly when its condition holds. *)
(***************************************************************************)
\* Line 111: if raw_cfr_part is None
AtNone == pc = "start" /\ raw_cfr_part.isNone

\* Lines 114-115: if not raw
AtBlank ==
  pc = "start" /\ ~raw_cfr_part.isNone /\ Strip(raw_cfr_part.str) = <<>>

\* Lines 114-122: otherwise.
AtScan ==
  pc = "start" /\ ~raw_cfr_part.isNone /\ Strip(raw_cfr_part.str) # <<>>

\* Line 122: the iterator yields a match.
AtMatch == pc = "loop" /\ matches # <<>>

\* Line 131, once the loop is over: if references
AtParsed == pc = "loop" /\ matches = <<>> /\ references # <<>>

\* Line 134: if had_cfr_title
AtUnparsed ==
  pc = "loop" /\ matches = <<>> /\ references = <<>> /\ had_cfr_title

\* CanInfer on the keyword alone, and on the parts alone.
CanInfer_KeywordOnly(text, inferred_parts) == PART_HINT_RE(text) # 0

CanInfer_PartsOnly(text, inferred_parts) == inferred_parts # <<>>

\* Line 140: if inferred_parts and PART_HINT_RE.search(raw)
CanInfer(text, inferred_parts) == inferred_parts # <<>> /\ PART_HINT_RE(text) # 0

\* The condition under which line 147 is reached, written without its
\* fall-through: only for a text without inferred parts.
AtNoCfr_OnlyWithoutParts ==
  /\ pc = "loop" /\ matches = <<>> /\ references = <<>> /\ ~had_cfr_title
  /\ _extract_parts_from_body(raw) = <<>>

\* Lines 139-140.
AtMissingTitle ==
  /\ pc = "loop" /\ matches = <<>> /\ references = <<>> /\ ~had_cfr_title
  /\ CanInfer(raw, _extract_parts_from_body(raw))

\* Line 147: the fall-through.
AtNoCfr ==
  /\ pc = "loop" /\ matches = <<>> /\ references = <<>> /\ ~had_cfr_title
  /\ ~CanInfer(raw, _extract_parts_from_body(raw))

\* ReturnNone with the raw field of the blank case.
ReturnNone_EmptyString ==
  /\ AtNone
  /\ Return(Str(<<>>), "empty", <<>>)
  /\ UNCHANGED <<raw_cfr_part, raw, matches, references, seen_refs, had_cfr_title>>
  /\ UNCHANGED caller_vars

\* Lines 111-112.
ReturnNone ==
  /\ AtNone
  /\ Return(None, "empty", <<>>)
  /\ UNCHANGED <<raw_cfr_part, raw, matches, references, seen_refs, had_cfr_title>>
  /\ UNCHANGED caller_vars

\* Lines 114-116.
ReturnBlank ==
  /\ AtBlank
  /\ raw' = Strip(raw_cfr_part.str)
  /\ Return(Str(raw'), "empty", <<>>)
  /\ UNCHANGED <<raw_cfr_part, matches, references, seen_refs, had_cfr_title>>
  /\ UNCHANGED caller_vars

\* Lines 114-122: the locals, and the iterator of the for loop.
BeginScan ==
  /\ AtScan
  /\ raw' = Strip(raw_cfr_part.str)
  /\ references' = <<>>
  /\ seen_refs' = {}
  /\ had_cfr_title' = FALSE
  /\ matches' = TITLE_SEGMENT_RE(raw')
  /\ pc' = "loop"
  /\ UNCHANGED <<raw_cfr_part, result>>
  /\ UNCHANGED caller_vars

\* AddReference without the test of line 127.
AddReference_NoSeenCheck(acc, title, part) ==
  [references |-> Append(acc.references, [title |-> title, part |-> part]),
   seen_refs |-> acc.seen_refs \cup {<<title, part>>}]

\* Lines 126-129: one part of one title.
AddReference(acc, title, part) ==
  IF <<title, part>> \notin acc.seen_refs
  THEN [references |-> Append(acc.references, [title |-> title, part |-> part]),
        seen_refs |-> acc.seen_refs \cup {<<title, part>>}]
  ELSE acc

\* Lines 125-129: the parts parts[lo..hi] of one body, in order (walked
\* half by half, as AddPartsBetween).
RECURSIVE AddReferencesBetween(_, _, _, _, _)
AddReferencesBetween(acc, title, parts, lo, hi) ==
  IF lo > hi THEN acc
  ELSE IF lo = hi THEN AddReference(acc, title, parts[lo])
  ELSE LET mid == (lo + hi) \div 2
           first == AddReferencesBetween(acc, title, parts, lo, mid)
       IN IF Evaluated(first)
          THEN AddReferencesBetween(first, title, parts, mid + 1, hi)
          ELSE acc

AddReferences(acc, title, parts) ==
  AddReferencesBetween(acc, title, parts, 1, Len(parts))

\* Lines 124-129 for one match: the locals after the inner loop.
AfterMatch(acc, title, body) ==
  AddReferences(acc, title, _extract_parts_from_body(body))

Accumulated(acc) ==
  /\ references' = acc.references
  /\ seen_refs' = acc.seen_refs

\* NextMatch with the title as it is written in the text, not canonicalized.
NextMatch_RawTitle ==
  /\ AtMatch
  /\ had_cfr_title' = TRUE
  /\ Accumulated(AfterMatch([references |-> references, seen_refs |-> seen_refs],
                            Head(matches).title,
                            Head(matches).body))
  /\ matches' = Tail(matches)
  /\ UNCHANGED <<raw_cfr_part, pc, raw, result>>
  /\ UNCHANGED caller_vars

\* Lines 122-129: one iteration of the for loop.
NextMatch ==
  /\ AtMatch
  /\ had_cfr_title' = TRUE
  /\ Accumulated(AfterMatch([references |-> references, seen_refs |-> seen_refs],
                            _canonical_number(Head(matches).title),
                            Head(matches).body))
  /\ matches' = Tail(matches)
  /\ UNCHANGED <<raw_cfr_part, pc, raw, result>>
  /\ UNCHANGED caller_vars

\* ReturnParsed taken whenever a title marker was seen, instead of whenever
\* references is non-empty.
ReturnParsed_OnTitle ==
  /\ pc = "loop" /\ matches = <<>> /\ had_cfr_title
  /\ Return(Str(raw), "parsed", references)
  /\ UNCHANGED <<raw_cfr_part, raw, matches, references, seen_refs, had_cfr_title>>
  /\ UNCHANGED caller_vars

\* Lines 131-132.
ReturnParsed ==
  /\ AtParsed
  /\ Return(Str(raw), "parsed", references)
  /\ UNCHANGED <<raw_cfr_part, raw, matches, references, seen_refs, had_cfr_title>>
  /\ UNCHANGED caller_vars

\* ReturnUnparsed falling back on the whole text, as lines 139-145 do for a
\* text without title marker.
ReturnUnparsed_TryInfer ==
  /\ AtUnparsed
  /\ IF CanInfer(raw, _extract_parts_from_body(raw))
     THEN Return(Str(raw), "missing_title",
                 [k \in 1..Len(_extract_parts_from_body(raw)) |->
                    [title |-> <<>>, part |-> _extract_parts_from_body(raw)[k]]])
     ELSE Return(Str(raw), "unparsed", <<>>)
  /\ UNCHANGED <<raw_cfr_part, raw, matches, references, seen_refs, had_cfr_title>>
  /\ UNCHANGED caller_vars

\* Lines 134-135.
ReturnUnparsed ==
  /\ AtUnparsed
  /\ Return(Str(raw), "unparsed", <<>>)
  /\ UNCHANGED <<raw_cfr_part, raw, matches, references, seen_refs, had_cfr_title>>
  /\ UNCHANGED caller_vars

\* Line 144: [{"title": "", "part": p} for p in inferred_parts]
MissingTitleReferences(inferred_parts) ==
  [k \in 1..Len(inferred_parts) |-> [title |-> <<>>, part |-> inferred_parts[k]]]

\* Lines 139-145.
ReturnMissingTitle ==
  /\ AtMissingTitle
  /\ Return(Str(raw), "missing_title",
            MissingTitleReferences(_extract_parts_from_body(raw)))
  /\ UNCHANGED <<raw_cfr_part, raw, matches, references, seen_refs, had_cfr_title>>
  /\ UNCHANGED caller_vars

\* Lines 139-147.
ReturnNoCfr ==
  /\ AtNoCfr
  /\ Return(Str(raw), "no_cfr", <<>>)
  /\ UNCHANGED <<raw_cfr_part, raw, matches, references, seen_refs, had_cfr_title>>
  /\ UNCHANGED caller_vars

Next ==
  \/ ReturnNone
  \/ ReturnBlank
  \/ BeginScan
  \/ NextMatch
  \/ ReturnParsed
  \/ ReturnUnparsed
  \/ ReturnMissingTitle
  \/ ReturnNoCfr

Spec == Init /\ [][Next]_vars

(***************************************************************************)
(* extract_parts_for_title                                                 *)
(***************************************************************************)
\* The argument title: int | str.
IntTitle(n) == [isInt |-> TRUE, str |-> <<>>, int |-> n]
StrTitle(s) == [isInt |-> FALSE, str |-> s, int |-> 0]

\* Line 159: str(title)
TitleStr(t) == IF t.isInt THEN IntToStr(t.int) ELSE t.str

\* Lines 162-164: ref["part"] for each of the references kept.
PartsOfRefs(refs) == [k \in 1..Len(refs) |-> refs[k].part]

\* Line 167: list(dict.fromkeys(parts)), the first occurrence of each value.
FirstOccurrences(seq) ==
  SelectSeq([k \in 1..Len(seq) |-> k],
            LAMBDA k : \A j \in 1..(k - 1) : seq[j] # seq[k])

AtPositions(seq, positions) == [i \in 1..Len(positions) |-> seq[positions[i]]]

DictFromKeys(seq) == AtPositions(seq, FirstOccurrences(seq))

\* Lines 159-167, on what normalize_cfr_part returned.
extract_parts_for_title(normalized, t) ==
  DictFromKeys(PartsOfRefs(
    SelectSeq(normalized.references,
              LAMBDA ref : ref.title = TitleStr(t) /\ ref.part # <<>>)))

Titles ==
  {IntTitle(42), IntTitle(45), IntTitle(7),
   StrTitle(<<"4", "2">>), StrTitle(<<"0", "4", "2">>), StrTitle(<<>>)}

TitleInputs ==
  {None} \cup {Str(s) : s \in DocumentedInputs \cup OtherInputs \cup Concats(1)}

InitForTitle ==
  /\ raw_cfr_part \in TitleInputs
  /\ title_arg \in Titles
  /\ pc = "start"
  /\ raw = <<>>
  /\ matches = <<>>
  /\ references = <<>>
  /\ seen_refs = {}
  /\ had_cfr_title = FALSE
  /\ result = NoResult
  /\ title_parts = <<>>
  /\ other = NoCall
  /\ NoScripts

\* Lines 159-167, once the call of line 160 has returned.
ReturnPartsForTitle ==
  /\ pc = "done"
  /\ title_arg # NoTitle
  /\ title_parts' = extract_parts_for_title(result, title_arg)
  /\ pc' = "returned"
  /\ UNCHANGED <<raw_cfr_part, raw, matches, references, seen_refs,
                 had_cfr_title, result, title_arg, other>>
  /\ UNCHANGED script_vars

NextForTitle == Next \/ ReturnPartsForTitle

SpecForTitle == InitForTitle /\ [][NextForTitle]_vars

(***************************************************************************)
(* normalize_cfr_part_json, and a second call                              *)
(***************************************************************************)
\* json.dumps of one character of a str (ensure_ascii).
JsonChar(c) ==
  CASE c = "\t" -> <<"\\", "t">>
    [] c = "\n" -> <<"\\", "n">>
    [] c = "\r" -> <<"\\", "r">>
    [] c = "\f" -> <<"\\", "f">>
    [] c = "\"" -> <<"\\", "\"">>
    [] c = "\\" -> <<"\\", "\\">>
    [] c = EN_DASH -> <<"\\", "u", "2", "0", "1", "3">>
    [] c = EM_DASH -> <<"\\", "u", "2", "0", "1", "4">>
    [] OTHER -> <<c>>

\* json.dumps of a str, from its character k on.
RECURSIVE JsonStringFrom(_, _)
JsonStringFrom(s, k) ==
  IF k > Len(s) THEN <<"\"">> ELSE JsonChar(s[k]) \o JsonStringFrom(s, k + 1)

JsonString(s) == <<"\"">> \o JsonStringFrom(s, 1)

\* json.dumps of the references from the k-th on: the keys of each dict
\* sorted, "," between the items and no blank.
RECURSIVE JsonReferencesFrom(_, _)
JsonReferencesFrom(refs, k) ==
  IF k > Len(refs) THEN <<"]">>
  ELSE (IF k > 1 THEN <<",">> ELSE <<>>)
       \o <<"{", "\"", "p", "a", "r", "t", "\"", ":">> \o JsonString(refs[k].part)
       \o <<",", "\"", "t", "i", "t", "l", "e", "\"", ":">> \o JsonString(refs[k].title) \o <<"}">>
       \o JsonReferencesFrom(refs, k + 1)

\* The characters of a status.
StatusChars(status) ==
  CASE status = "empty" -> <<"e", "m", "p", "t", "y">>
    [] status = "parsed" -> <<"p", "a", "r", "s", "e", "d">>
    [] status = "missing_title" -> <<"m", "i", "s", "s", "i", "n", "g", "_", "t", "i", "t", "l", "e">>
    [] status = "unparsed" -> <<"u", "n", "p", "a", "r", "s", "e", "d">>
    [] status = "no_cfr" -> <<"n", "o", "_", "c", "f", "r">>

\* Line 152: json.dumps(..., separators=(",", ":"), sort_keys=True)
json_dumps(r) ==
  <<"{", "\"", "r", "a", "w", "\"", ":">> \o (IF r.raw.isNone THEN <<"n", "u", "l", "l">> ELSE JsonString(r.raw.str))
  \o <<",", "\"", "r", "e", "f", "e", "r", "e", "n", "c", "e", "s", "\"", ":", "[">> \o JsonReferencesFrom(r.references, 1)
  \o <<",", "\"", "s", "t", "a", "t", "u", "s", "\"", ":">> \o JsonString(StatusChars(r.status)) \o <<"}">>

\* The locals of a call that has just been made with argument arg.
Started(arg) ==
  [pc |-> "start", raw_cfr_part |-> arg, raw |-> <<>>, matches |-> <<>>,
   references |-> <<>>, seen_refs |-> {}, had_cfr_title |-> FALSE,
   result |-> NoResult, json |-> <<>>]

\* LocalsOf with a set seen_refs that all calls share.
LocalsOf_SharedSeen(c) ==
  [references |-> c.references, seen_refs |-> c.seen_refs \cup seen_refs]

\* Lines 118-119: references and seen_refs are locals of the call.
LocalsOf(c) == [references |-> c.references, seen_refs |-> c.seen_refs]

\* return {"raw": ..., "status": ..., "references": ...} in the call c.
Returned(c, r, status, refs) ==
  [c EXCEPT !.pc = "done",
            !.result = [raw |-> r, status |-> status, references |-> refs]]

\* Lines 114-122 in the call c.
Scanned(c, stripped) ==
  IF stripped = <<>> THEN Returned(c, Str(stripped), "empty", <<>>)
  ELSE [c EXCEPT !.pc = "loop", !.raw = stripped,
                 !.matches = TITLE_SEGMENT_RE(stripped)]

\* Lines 122-129 in the call c: one iteration of the loop.
Matched(c, acc) ==
  [c EXCEPT !.had_cfr_title = TRUE, !.references = acc.references,
            !.seen_refs = acc.seen_refs, !.matches = Tail(c.matches)]

\* Lines 139-147 in the call c.
Inferred(c, inferred_parts) ==
  IF CanInfer(c.raw, inferred_parts)
  THEN Returned(c, Str(c.raw), "missing_title", MissingTitleReferences(inferred_parts))
  ELSE Returned(c, Str(c.raw), "no_cfr", <<>>)

\* Lines 111-147: the next step of normalize_cfr_part in the call c.
Stepped(c) ==
  IF c.pc = "start"
  THEN IF c.raw_cfr_part.isNone THEN Returned(c, None, "empty", <<>>)
       ELSE Scanned(c, Strip(c.raw_cfr_part.str))
  ELSE IF c.matches # <<>>
  THEN Matched(c, AfterMatch(LocalsOf(c), _canonical_number(Head(c.matches).title),
                             Head(c.matches).body))
  ELSE IF c.references # <<>> THEN Returned(c, Str(c.raw), "parsed", c.references)
  ELSE IF c.had_cfr_title THEN Returned(c, Str(c.raw), "unparsed", <<>>)
  ELSE Inferred(c, _extract_parts_from_body(c.raw))

InitTwoCalls ==
  /\ raw_cfr_part \in TitleInputs
  /\ other \in {Started(arg) : arg \in TitleInputs}
  /\ pc = "start"
  /\ raw = <<>>
  /\ matches = <<>>
  /\ references = <<>>
  /\ seen_refs = {}
  /\ had_cfr_title = FALSE
  /\ result = NoResult
  /\ title_arg = NoTitle
  /\ title_parts = <<>>
  /\ NoScripts

\* A step of normalize_cfr_part in the other call.
OtherStep ==
  /\ other.pc \in {"start", "loop"}
  /\ other' = Stepped(other)
  /\ UNCHANGED <<raw_cfr_part, pc, raw, matches, references, seen_refs,
                 had_cfr_title, result, title_arg, title_parts>>
  /\ UNCHANGED script_vars

\* Line 152: the other call is one of normalize_cfr_part_json.
OtherDumps ==
  /\ other.pc = "done"
  /\ other' = [other EXCEPT !.pc = "returned", !.json = json_dumps(other.result)]
  /\ UNCHANGED <<raw_cfr_part, pc, raw, matches, references, seen_refs,
                 had_cfr_title, result, title_arg, title_parts>>
  /\ UNCHANGED script_vars

NextTwoCalls == Next \/ OtherStep \/ OtherDumps

SpecTwoCalls == InitTwoCalls /\ [][NextTwoCalls]_vars

(***************************************************************************)
(* insert_documents.run                                                    *)
(***************************************************************************)
\* How many files the data directory holds, at most.
MaxFiles == 4

\* The size of a batch (5000 in the source, line 164), scaled down.
BATCH_SIZE == 2

\* normalize_cfr_part is not running.
NormalizerIdle ==
  /\ raw_cfr_part = None
  /\ pc = "idle"
  /\ raw = <<>>
  /\ matches = <<>>
  /\ references = <<>>
  /\ seen_refs = {}
  /\ had_cfr_title = FALSE
  /\ result = NoResult
  /\ title_arg = NoTitle
  /\ title_parts = <<>>
  /\ other = NoCall

normalizer_vars ==
  <<raw_cfr_part, pc, raw, matches, references, seen_refs, had_cfr_title, result,
    title_arg, title_parts, other>>

\* The argument limit: None, or an int.
NoLimit == [isNone |-> TRUE, int |-> 0]
Limit(k) == [isNone |-> FALSE, int |-> k]

\* Lines 159-169: the locals of run on a directory of n files, which are
\* numbered 1..n in the order collect_document_paths yields them.  counted
\* records the files whose rows inserted has counted.
RunStarted(n, limit) ==
  [pc |-> "loop", files |-> n, limit |-> limit, path |-> 0, batch |-> <<>>,
   inserted |-> 0, failures |-> <<>>, counted |-> <<>>,
   returned |-> [inserted |-> 0, failed |-> 0, failures |-> <<>>]]

\* Lines 167-170: how many paths the for loop gets, with islice.
PathsOf(r) ==
  IF r.limit.isNone \/ r.limit.int >= r.files THEN r.files ELSE r.limit.int

InitInsert ==
  /\ NormalizerIdle
  /\ insert \in {RunStarted(n, limit) :
                   n \in 0..MaxFiles,
                   limit \in {NoLimit} \cup {Limit(k) : k \in 0..MaxFiles}}
  /\ ingest = NoCall
  /\ request = NoCall
  /\ fetch = NoCall

\* Line 170: the for loop has a next path.
AtPath == insert.pc = "loop" /\ insert.path < PathsOf(insert)

\* Line 192: the for loop is over.
AtEnd == insert.pc = "loop" /\ insert.path = PathsOf(insert)

\* failures.append((str(path), error)), and the next iteration.
Failing(r, error) ==
  [r EXCEPT !.path = @ + 1,
            !.failures = Append(@, [path |-> r.path + 1, error |-> error])]

\* Lines 172-173 raise (open or json.load), or anything else does: one of the
\* except clauses of lines 184-191, other than the one of sqlite3.Error.
ReadRaises ==
  /\ AtPath
  /\ \E error \in {"JSON decode", "IO", "Exception"} :
       insert' = Failing(insert, error)
  /\ UNCHANGED <<ingest, request, fetch>>
  /\ UNCHANGED normalizer_vars

\* Lines 174-177: _row_from_json returns None.
RowIsNone ==
  /\ AtPath
  /\ insert' = Failing(insert, "Could not build row from JSON")
  /\ UNCHANGED <<ingest, request, fetch>>
  /\ UNCHANGED normalizer_vars

\* Lines 178-179: the row joins a batch that is not full yet.
RowBatched ==
  /\ AtPath
  /\ Len(insert.batch) + 1 < BATCH_SIZE
  /\ insert' = [insert EXCEPT !.path = @ + 1, !.batch = Append(@, insert.path + 1)]
  /\ UNCHANGED <<ingest, request, fetch>>
  /\ UNCHANGED normalizer_vars

\* Lines 178-183: the row fills the batch, which is written and committed.
BatchFlushed ==
  /\ AtPath
  /\ Len(insert.batch) + 1 >= BATCH_SIZE
  /\ insert' = [insert EXCEPT !.path = @ + 1,
                              !.batch = <<>>,
                              !.inserted = @ + Len(insert.batch) + 1,
                              !.counted = @ \o Append(insert.batch, insert.path + 1)]
  /\ UNCHANGED <<ingest, request, fetch>>
  /\ UNCHANGED normalizer_vars

\* Lines 178-180 and 186-187: the row fills the batch and executemany raises
\* sqlite3.Error: lines 181-183 are skipped, so the batch keeps its rows.
ExecutemanyRaises ==
  /\ AtPath
  /\ Len(insert.batch) + 1 >= BATCH_SIZE
  /\ insert' = [Failing(insert, "SQLite") EXCEPT !.batch = Append(@, insert.path + 1)]
  /\ UNCHANGED <<ingest, request, fetch>>
  /\ UNCHANGED normalizer_vars

\* Lines 178-182 and 186-187: the row fills the batch, executemany succeeds
\* and commit raises sqlite3.Error: inserted is already incremented (line
\* 181) and line 183 is skipped.
CommitRaises ==
  /\ AtPath
  /\ Len(insert.batch) + 1 >= BATCH_SIZE
  /\ insert' = [Failing(insert, "SQLite") EXCEPT
                  !.batch = Append(@, insert.path + 1),
                  !.inserted = @ + Len(insert.batch) + 1,
                  !.counted = @ \o Append(insert.batch, insert.path + 1)]
  /\ UNCHANGED <<ingest, request, fetch>>
  /\ UNCHANGED normalizer_vars

\* Lines 192-198: the last batch, and the return.
RunReturns ==
  /\ AtEnd
  /\ insert' = [insert EXCEPT
                  !.pc = "returned",
                  !.inserted = @ + Len(insert.batch),
                  !.counted = @ \o insert.batch,
                  !.returned = [inserted |-> insert.inserted + Len(insert.batch),
                                failed |-> Len(insert.failures),
                                failures |-> insert.failures]]
  /\ UNCHANGED <<ingest, request, fetch>>
  /\ UNCHANGED normalizer_vars

\* Lines 192-197: executemany or commit raises outside the for loop: the
\* exception leaves run through the finally clause, and nothing is returned.
RunRaises ==
  /\ AtEnd
  /\ insert' = [insert EXCEPT !.pc = "raised"]
  /\ UNCHANGED <<ingest, request, fetch>>
  /\ UNCHANGED normalizer_vars

NextInsert ==
  \/ ReadRaises
  \/ RowIsNone
  \/ RowBatched
  \/ BatchFlushed
  \/ ExecutemanyRaises
  \/ CommitRaises
  \/ RunReturns
  \/ RunRaises

SpecInsert == InitInsert /\ [][NextInsert]_vars

(***************************************************************************)
(* ingest_dockets_postgres.ingest_dockets                                  *)
(***************************************************************************)
\* How many dockets are ingested, and how many documents they hold in all,
\* at most.
MaxDockets == 2
MaxDocs == 3

\* Line 365: len(unparsed_examples) < 10
MAX_EXAMPLES == 10

\* Lines 111-147 of cfr_part_normalization.py: the status normalize_cfr_part
\* returns for the text raw, already stripped and not empty.
StatusOfText(text) ==
  IF TITLE_SEGMENT_RE(text) # <<>>
  THEN IF \E k \in 1..Len(TITLE_SEGMENT_RE(text)) :
            _extract_parts_from_body(TITLE_SEGMENT_RE(text)[k].body) # <<>>
       THEN "parsed"
       ELSE "unparsed"
  ELSE IF CanInfer(text, _extract_parts_from_body(text)) THEN "missing_title"
  ELSE "no_cfr"

\* normalize_cfr_part(cfr_part)["status"] (lines 231 and 258).
StatusOf(cfr_part) ==
  IF cfr_part.isNone THEN "empty"
  ELSE IF Strip(cfr_part.str) = <<>> THEN "empty"
  ELSE StatusOfText(Strip(cfr_part.str))

\* The values of the attribute cfrPart of the documents.
CfrParts ==
  {None,
   Str(<<" ">>),
   Str(<<"4", "2", " ", "C", "F", "R", " ", "P", "a", "r", "t", " ", "4", "1", "2">>),
   Str(<<"4", "2", " ", "C", "F", "R">>),
   Str(<<"P", "a", "r", "t", "s", " ", "4", "1", "2", "-", "4", "1", "3">>),
   Str(<<"R", "I", "N", " ", "0", "9", "3", "8">>)}

\* The documents the API serves: with an id, and without one (nothing else
\* of these is ever read).
Documents ==
  {[has_id |-> TRUE, cfrPart |-> c] : c \in CfrParts}
    \cup {[has_id |-> FALSE, cfrPart |-> None]}

\* Lines 345-350: the locals of ingest_dockets on n dockets.  seen is the
\* documents the inner loop has processed, pending how many documents of
\* the current docket it has still to process, and executed the rows given
\* to cur.execute.
IngestStarted(n, dry_run) ==
  [pc |-> "loop", dockets |-> n, dry_run |-> dry_run, docket |-> 0, pending |-> 0,
   upserted |-> 0, failed |-> 0, parse_status |-> [s \in Statuses |-> 0],
   unparsed_examples |-> <<>>, seen |-> <<>>, executed |-> <<>>]

InitIngest ==
  /\ NormalizerIdle
  /\ insert = NoCall
  /\ ingest \in {IngestStarted(n, d) : n \in 1..MaxDockets, d \in BOOLEAN}
  /\ request = NoCall
  /\ fetch = NoCall

\* Line 351: the outer loop has a next docket, the inner loop being over.
AtDocket ==
  ingest.pc = "loop" /\ ingest.pending = 0 /\ ingest.docket < ingest.dockets

\* Line 356: the inner loop has a next document.
AtDocument == ingest.pc = "loop" /\ ingest.pending > 0

\* Lines 351-354: fetch_docket_documents returns the documents of the docket.
DocketFetched ==
  /\ AtDocket
  /\ \E n \in 0..(MaxDocs - Len(ingest.seen)) :
       ingest' = [ingest EXCEPT !.docket = @ + 1, !.pending = n]
  /\ UNCHANGED <<insert, request, fetch>>
  /\ UNCHANGED normalizer_vars

\* Line 353: fetch_docket_documents raises (line 202), and so does
\* ingest_dockets.
FetchRaises ==
  /\ AtDocket
  /\ ingest' = [ingest EXCEPT !.docket = @ + 1, !.pc = "raised"]
  /\ UNCHANGED <<insert, request, fetch>>
  /\ UNCHANGED normalizer_vars

\* Lines 364-366: raw_cfr joins the examples.
IsExample(g, doc) ==
  /\ StatusOf(doc.cfrPart) \in {"unparsed", "missing_title"}
  /\ ~doc.cfrPart.isNone /\ doc.cfrPart.str # <<>>
  /\ doc.cfrPart.str \notin {g.unparsed_examples[k] : k \in 1..Len(g.unparsed_examples)}
  /\ Len(g.unparsed_examples) < MAX_EXAMPLES

\* Lines 357-366, for a document with an id: the locals before line 368.
Counted(g, doc) ==
  [g EXCEPT !.pending = @ - 1,
            !.seen = Append(@, doc),
            !.parse_status[StatusOf(doc.cfrPart)] = @ + 1,
            !.unparsed_examples =
               IF IsExample(g, doc) THEN Append(@, doc.cfrPart.str) ELSE @]

\* Lines 357-360: _row_from_document returns None for a document without id.
DocumentWithoutId ==
  /\ AtDocument
  /\ \E doc \in {d \in Documents : ~d.has_id} :
       ingest' = [ingest EXCEPT !.pending = @ - 1,
                                !.seen = Append(@, doc),
                                !.failed = @ + 1]
  /\ UNCHANGED <<insert, request, fetch>>
  /\ UNCHANGED normalizer_vars

\* DocumentSkipped without the test of line 368.
DocumentSkipped_Upserts ==
  /\ AtDocument
  /\ ingest.dry_run
  /\ \E doc \in {d \in Documents : d.has_id} :
       ingest' = [Counted(ingest, doc) EXCEPT !.executed = Append(@, doc),
                                              !.upserted = @ + 1]
  /\ UNCHANGED <<insert, request, fetch>>
  /\ UNCHANGED normalizer_vars

\* Lines 357-369: with dry_run, the document is counted and nothing else.
DocumentSkipped ==
  /\ AtDocument
  /\ ingest.dry_run
  /\ \E doc \in {d \in Documents : d.has_id} :
       ingest' = Counted(ingest, doc)
  /\ UNCHANGED <<insert, request, fetch>>
  /\ UNCHANGED normalizer_vars

\* Lines 357-373: cur.execute returns.
DocumentUpserted ==
  /\ AtDocument
  /\ ~ingest.dry_run
  /\ \E doc \in {d \in Documents : d.has_id} :
       ingest' = [Counted(ingest, doc) EXCEPT !.executed = Append(@, doc),
                                              !.upserted = @ + 1]
  /\ UNCHANGED <<insert, request, fetch>>
  /\ UNCHANGED normalizer_vars

\* Lines 357-376: cur.execute raises.
UpsertRaises ==
  /\ AtDocument
  /\ ~ingest.dry_run
  /\ \E doc \in {d \in Documents : d.has_id} :
       ingest' = [Counted(ingest, doc) EXCEPT !.executed = Append(@, doc),
                                              !.failed = @ + 1]
  /\ UNCHANGED <<insert, request, fetch>>
  /\ UNCHANGED normalizer_vars

\* Line 378.
IngestReturns ==
  /\ ingest.pc = "loop" /\ ingest.pending = 0 /\ ingest.docket = ingest.dockets
  /\ ingest' = [ingest EXCEPT !.pc = "returned"]
  /\ UNCHANGED <<insert, request, fetch>>
  /\ UNCHANGED normalizer_vars

NextIngest ==
  \/ DocketFetched
  \/ FetchRaises
  \/ DocumentWithoutId
  \/ DocumentSkipped
  \/ DocumentUpserted
  \/ UpsertRaises
  \/ IngestReturns

SpecIngest == InitIngest /\ [][NextIngest]_vars

(***************************************************************************)
(* fetch_agency_documents.make_request                                     *)
(***************************************************************************)
\* How many times make_request sends its request, at most.
MaxRequests == 3

\* The seconds of lines 37 and 41.
ONE_HOUR == 3600

\* HTTP status codes (line 35, and what the callers test at lines 57 and 82).
TOO_MANY_REQUESTS == 429
OK == 200

\* A header: absent, or present with a text as its value.
NoHeader == [present |-> FALSE, text |-> <<>>]
Header(text) == [present |-> TRUE, text |-> text]

\* The texts int() accepts: an optional sign and digits, with white space
\* around them.
UnsignedText(s) == IF s # <<>> /\ Head(s) \in {"+", "-"} THEN Tail(s) ELSE s

IsIntText(s) == IsIntLiteral(UnsignedText(Strip(s)))

\* int(s), for such a text.
IntOfText(s) ==
  IF Strip(s) # <<>> /\ Head(Strip(s)) = "-"
  THEN 0 - ParseInt(UnsignedText(Strip(s)))
  ELSE ParseInt(UnsignedText(Strip(s)))

\* Line 33: int(resp.headers.get("X-RateLimit-Remaining", 0)) raises
\* ValueError.
RemainingRaises(resp) == resp.remaining.present /\ ~IsIntText(resp.remaining.text)

\* Line 33, when it does not raise: the default 0 for an absent header.
RemainingOf(resp) ==
  IF resp.remaining.present THEN IntOfText(resp.remaining.text) ELSE 0

\* The values of X-RateLimit-Remaining the server may send.
RemainingHeaders ==
  {NoHeader,
   Header(<<"0">>), Header(<<"1">>), Header(<<"9", "9", "9">>), Header(<<"-", "1">>),
   Header(<<" ", "5">>), Header(<<>>), Header(<<"n", "/", "a">>)}

\* The responses of the server.
Responses ==
  {[status_code |-> c, remaining |-> h] :
     c \in {OK, TOO_MANY_REQUESTS, 404, 500}, h \in RemainingHeaders}

NoResponse == [status_code |-> 0, remaining |-> NoHeader]

\* The arguments of make_request.
Requests ==
  {[url |-> u, page |-> p] : u \in {"dockets", "documents"}, p \in 1..2}

\* Lines 27-30: the locals of make_request.  sent is the requests given to
\* requests.get so far, slept the seconds spent in time.sleep.
RequestStarted(args) ==
  [pc |-> "get", args |-> args, sent |-> <<>>, slept |-> 0,
   resp |-> NoResponse, returned |-> NoResponse]

InitRequest ==
  /\ NormalizerIdle
  /\ insert = NoCall
  /\ ingest = NoCall
  /\ request \in {RequestStarted(args) : args \in Requests}
  /\ fetch = NoCall

\* Line 31: requests.get returns a response.
Get ==
  /\ request.pc = "get"
  /\ Len(request.sent) < MaxRequests
  /\ \E resp \in Responses :
       request' = [request EXCEPT !.pc = "got",
                                  !.sent = Append(@, request.args),
                                  !.resp = resp]
  /\ UNCHANGED <<insert, ingest, fetch>>
  /\ UNCHANGED normalizer_vars

\* Line 31: requests.get raises (no connection, for one), and so does
\* make_request.
GetRaises ==
  /\ request.pc = "get"
  /\ Len(request.sent) < MaxRequests
  /\ request' = [request EXCEPT !.pc = "raised", !.sent = Append(@, request.args)]
  /\ UNCHANGED <<insert, ingest, fetch>>
  /\ UNCHANGED normalizer_vars

\* Line 33: int() raises ValueError, and so does make_request.
IntRaises ==
  /\ request.pc = "got"
  /\ RemainingRaises(request.resp)
  /\ request' = [request EXCEPT !.pc = "raised"]
  /\ UNCHANGED <<insert, ingest, fetch>>
  /\ UNCHANGED normalizer_vars

\* Lines 35-38.
WaitOn429 ==
  /\ request.pc = "got"
  /\ ~RemainingRaises(request.resp)
  /\ request.resp.status_code = TOO_MANY_REQUESTS
  /\ request' = [request EXCEPT !.pc = "get", !.slept = @ + ONE_HOUR]
  /\ UNCHANGED <<insert, ingest, fetch>>
  /\ UNCHANGED normalizer_vars

\* Lines 39-42.
WaitOnRemaining ==
  /\ request.pc = "got"
  /\ ~RemainingRaises(request.resp)
  /\ request.resp.status_code # TOO_MANY_REQUESTS
  /\ RemainingOf(request.resp) < 1
  /\ request' = [request EXCEPT !.pc = "get", !.slept = @ + ONE_HOUR]
  /\ UNCHANGED <<insert, ingest, fetch>>
  /\ UNCHANGED normalizer_vars

\* Line 43.
ReturnResp ==
  /\ request.pc = "got"
  /\ ~RemainingRaises(request.resp)
  /\ request.resp.status_code # TOO_MANY_REQUESTS
  /\ RemainingOf(request.resp) >= 1
  /\ request' = [request EXCEPT !.pc = "returned", !.returned = request.resp]
  /\ UNCHANGED <<insert, ingest, fetch>>
  /\ UNCHANGED normalizer_vars

NextRequest ==
  \/ Get
  \/ GetRaises
  \/ IntRaises
  \/ WaitOn429
  \/ WaitOnRemaining
  \/ ReturnResp

SpecRequest == InitRequest /\ [][NextRequest]_vars

(***************************************************************************)
(* ingest_dockets_postgres.fetch_docket_documents                          *)
(***************************************************************************)
\* How many documents the docket holds on the server, the largest page_size,
\* and how many times the server answers with a response that make_request
\* does not return (after which it answers with one that it returns).
MaxServerDocs == 4
MaxPageSize == 3
MaxRetries == 2

\* Line 182: the statuses make_request retries on.
UPSTREAM_ERRORS == {500, 502, 503, 504}

\* Lines 144-148: _as_int of a header: None for an absent header and for a
\* text that is no integer.
NoInt == [isNone |-> TRUE, int |-> 0]

_as_int(header) ==
  IF header.present /\ IsIntText(header.text)
  THEN [isNone |-> FALSE, int |-> IntOfText(header.text)]
  ELSE NoInt

\* Lines 165-185: make_request waits and sends the request again.
Retried(resp) ==
  \/ resp.status_code = TOO_MANY_REQUESTS
  \/ ~_as_int(resp.remaining).isNone /\ _as_int(resp.remaining).int < 1
  \/ resp.status_code \in UPSTREAM_ERRORS

\* The server: the documents of the docket are numbered 1..n, and page
\* number page holds the next page_size of them, or what is left.
PageLength(n, page_size, page) ==
  IF n - (page - 1) * page_size <= 0 THEN 0
  ELSE IF n - (page - 1) * page_size >= page_size THEN page_size
  ELSE n - (page - 1) * page_size

PageItems(n, page_size, page) ==
  [k \in 1..PageLength(n, page_size, page) |-> (page - 1) * page_size + k]

\* The responses of the server to the request of a page: the page, or an
\* error; with any X-RateLimit-Remaining.
PageResponses(n, page_size, page) ==
  {[status_code |-> c, remaining |-> h,
    items |-> IF c = OK THEN PageItems(n, page_size, page) ELSE <<>>] :
     c \in {OK, TOO_MANY_REQUESTS, 404, 503},
     h \in {NoHeader, Header(<<"0">>), Header(<<"7">>), Header(<<"n", "/", "a">>)}}

\* Lines 190-193: the locals of fetch_docket_documents.  requested is the
\* page numbers of the requests sent so far, and retries how many of them
\* make_request has sent again.
FetchStarted(n, page_size) ==
  [pc |-> "loop", server_docs |-> n, page_size |-> page_size, page |-> 1,
   docs |-> <<>>, requested |-> <<>>, retries |-> 0,
   resp |-> [status_code |-> 0, remaining |-> NoHeader, items |-> <<>>],
   returned |-> <<>>]

InitFetch ==
  /\ NormalizerIdle
  /\ insert = NoCall
  /\ ingest = NoCall
  /\ request = NoCall
  /\ fetch \in {FetchStarted(n, page_size) :
                  n \in 0..MaxServerDocs, page_size \in 1..MaxPageSize}

\* The responses the request of the current page may get.
Answers == PageResponses(fetch.server_docs, fetch.page_size, fetch.page)

\* Lines 195-200: the request is sent, and the response resp received.
Requested(resp) ==
  [fetch EXCEPT !.requested = Append(@, fetch.page), !.resp = resp]

\* IsLastPage without len(items) < page_size.
IsLastPage_OnlyWhenEmpty(items, page_size) == items = <<>>

\* Line 210: if not items or len(items) < page_size
IsLastPage(items, page_size) == items = <<>> \/ Len(items) < page_size

\* Lines 160-185: make_request gets a response it does not return: it waits
\* and the request of the same page is sent again.
RequestRetried ==
  /\ fetch.pc = "loop"
  /\ fetch.retries < MaxRetries
  /\ \E resp \in {r \in Answers : Retried(r)} :
       fetch' = [Requested(resp) EXCEPT !.retries = @ + 1]
  /\ UNCHANGED <<insert, ingest, request>>
  /\ UNCHANGED normalizer_vars

\* Lines 200-202: make_request returns a response that is not a 200.
ApiError ==
  /\ fetch.pc = "loop"
  /\ \E resp \in {r \in Answers : ~Retried(r) /\ r.status_code # OK} :
       fetch' = [Requested(resp) EXCEPT !.pc = "raised"]
  /\ UNCHANGED <<insert, ingest, request>>
  /\ UNCHANGED normalizer_vars

\* Lines 200-212: a page that is not the last.
PageFetched ==
  /\ fetch.pc = "loop"
  /\ \E resp \in {r \in Answers : ~Retried(r) /\ r.status_code = OK} :
       /\ ~IsLastPage(resp.items, fetch.page_size)
       /\ fetch' = [Requested(resp) EXCEPT !.docs = @ \o resp.items,
                                           !.page = @ + 1]
  /\ UNCHANGED <<insert, ingest, request>>
  /\ UNCHANGED normalizer_vars

\* Lines 200-213: the last page, and the return.
LastPageFetched ==
  /\ fetch.pc = "loop"
  /\ \E resp \in {r \in Answers : ~Retried(r) /\ r.status_code = OK} :
       /\ IsLastPage(resp.items, fetch.page_size)
       /\ fetch' = [Requested(resp) EXCEPT !.docs = @ \o resp.items,
                                           !.pc = "returned",
                                           !.returned = fetch.docs \o resp.items]
  /\ UNCHANGED <<insert, ingest, request>>
  /\ UNCHANGED normalizer_vars

NextFetch ==
  \/ RequestRetried
  \/ ApiError
  \/ PageFetched
  \/ LastPageFetched

SpecFetch == InitFetch /\ [][NextFetch]_vars

\* The requests are answered, and the loop goes on as long as it can.
FairSpecFetch == SpecFetch /\ WF_vars(NextFetch)

(***************************************************************************)
(* Properties                                                              *)
(***************************************************************************)
Done == pc = "done"

\* The elements of a sequence.
Elements(seq) == {seq[k] : k \in 1..Len(seq)}

\* The argument is a string that is not blank.
NonBlankInput == ~raw_cfr_part.isNone /\ Strip(raw_cfr_part.str) # <<>>

\* C1: the references of a result hold no two entries with the same
\* (title, part) pair, whatever the status; the same holds of the local
\* list while it is built.
C1_NoDuplicateReferences ==
  /\ Cardinality(Elements(references)) = Len(references)
  /\ Done => Cardinality(Elements(result.references)) = Len(result.references)

\* C1 witness: a parsed result of two title segments with the same canonical
\* title, the second of which repeats a part of the first and adds one.
C1_Witness ==
  /\ Done
  /\ result.status = "parsed"
  /\ Len(TITLE_SEGMENT_RE(raw)) = 2
  /\ Cardinality({r.title : r \in Elements(result.references)}) = 1
  /\ \E p \in Elements(_extract_parts_from_body(TITLE_SEGMENT_RE(raw)[1].body)) :
       p \in Elements(_extract_parts_from_body(TITLE_SEGMENT_RE(raw)[2].body))
  /\ Len(result.references) > Len(_extract_parts_from_body(TITLE_SEGMENT_RE(raw)[1].body))

\* C2: status and references agree: parsed iff there are references and all
\* have a title; missing_title implies references, all without title; empty,
\* unparsed and no_cfr imply no references.
C2_StatusAgreesWithReferences ==
  Done =>
    /\ result.status = "parsed"
         <=> /\ result.references # <<>>
             /\ \A r \in Elements(result.references) : r.title # <<>>
    /\ result.status = "missing_title"
         => /\ result.references # <<>>
            /\ \A r \in Elements(result.references) : r.title = <<>>
    /\ result.status \in {"empty", "unparsed", "no_cfr"}
         => result.references = <<>>

\* C2 witness: a missing_title result with several references.
C2_Witness ==
  Done /\ result.status = "missing_title" /\ Len(result.references) >= 2

\* C3: the function is total: as long as it has not returned, exactly one
\* step of it can be taken (no input leaves it stuck in an error, without a
\* return statement or with two), and what it returns has exactly one of the
\* five statuses.
C3_Total ==
  /\ pc \in {"start", "loop", "done"}
  /\ Done => result.status \in Statuses
  /\ ~Done =>
       Cardinality({k \in 1..8 : CASE k = 1 -> AtNone
                                   [] k = 2 -> AtBlank
                                   [] k = 3 -> AtScan
                                   [] k = 4 -> AtMatch
                                   [] k = 5 -> AtParsed
                                   [] k = 6 -> AtUnparsed
                                   [] k = 7 -> AtMissingTitle
                                   [] k = 8 -> AtNoCfr}) = 1

\* C3 witness: a text with numbers and no title marker nor Part keyword has
\* degraded to no_cfr.
C3_Witness ==
  /\ Done
  /\ result.status = "no_cfr"
  /\ _extract_parts_from_body(raw) # <<>>

C5_RawUntouched ==
  (Done /\ ~raw_cfr_part.isNone) => result.raw = Str(raw_cfr_part.str)


(***************************************************************************)
(* Integer ranges                                                          *)
(***************************************************************************)
\* The text _extract_parts_from_body works on (line 69), and the matches of
\* RANGE_RE in its working window and in the whole of it.
BodyText(body) == Strip(ReplaceDashes(body))

RangesInWindow(body) ==
  IF BodyText(body) = <<>> THEN <<>>
  ELSE RANGE_RE_finditer(Candidate(BodyText(body)))

RangesInBody(body) == RANGE_RE_finditer(BodyText(body))

\* A match of RANGE_RE between integers no further apart than the guard.
IsIntRange(m) == IsIntLiteral(m.g1) /\ IsIntLiteral(m.g2)

Low(m) == IF ParseInt(m.g1) <= ParseInt(m.g2) THEN ParseInt(m.g1) ELSE ParseInt(m.g2)
High(m) == IF ParseInt(m.g1) <= ParseInt(m.g2) THEN ParseInt(m.g2) ELSE ParseInt(m.g1)

WithinGuard(m) == IsIntRange(m) /\ High(m) - Low(m) <= RANGE_GUARD

\* The references title t gets from the integers lo..hi, in ascending order.
Ascending(t, lo, hi) ==
  [k \in 1..(hi - lo + 1) |-> [title |-> t, part |-> IntToStr(lo + k - 1)]]

\* Every integer of the range m is a reference of title t.
AllReferenced(t, m) ==
  \A n \in Low(m)..High(m) :
    [title |-> t, part |-> IntToStr(n)] \in Elements(result.references)

OneRangeOnly ==
  /\ Done
  /\ NonBlankInput
  /\ Len(TITLE_SEGMENT_RE(raw)) = 1
  /\ Len(RangesInWindow(TITLE_SEGMENT_RE(raw)[1].body)) = 1
  /\ IsIntRange(RangesInWindow(TITLE_SEGMENT_RE(raw)[1].body)[1])
  /\ NUMBER_RE_findall(
       RANGE_RE_sub(Candidate(BodyText(TITLE_SEGMENT_RE(raw)[1].body)),
                    RangesInWindow(TITLE_SEGMENT_RE(raw)[1].body))) = <<>>

\* The references of the range lo..hi of title t when only its ends are kept.
EndsOnly(t, lo, hi) ==
  <<[title |-> t, part |-> IntToStr(lo)], [title |-> t, part |-> IntToStr(hi)]>>

\* The references of a text of one range, ranges of more than limit integers
\* being reduced to their ends.
GuardedAt(limit, t, m) ==
  IF High(m) - Low(m) + 1 > limit
  THEN EndsOnly(t, Low(m), High(m))
  ELSE Ascending(t, Low(m), High(m))

MarkerStarts(s) ==
  {i \in 1..Len(s) : ~IsDigit(Ch(s, i - 1)) /\ TitleMarkerEnd(s, i) # 0}

\* Where the body of the marker at i ends: at the next marker, or at the end.
NextMarker(s, i) ==
  IF \E q \in MarkerStarts(s) : q > i
  THEN MinOf({q \in MarkerStarts(s) : q > i})
  ELSE Len(s) + 1

\* C8 (as claimed): the splitter yields one segment per title marker, in
\* textual order, and each body runs from the end of its marker to the start
\* of the number of the next marker (to the end of the text for the last).
C8_OneSegmentPerMarker ==
  (pc = "loop" /\ ~had_cfr_title) =>
    /\ Len(matches) = Cardinality(MarkerStarts(raw))
    /\ \A k \in 1..Len(matches) :
         /\ matches[k].start \in MarkerStarts(raw)
         /\ k > 1 => matches[k - 1].start < matches[k].start
         /\ matches[k].body
              = Slice(raw, TitleMarkerEnd(raw, matches[k].start),
                      NextMarker(raw, matches[k].start))

(***************************************************************************)
(* Texts without a title marker                                            *)
(***************************************************************************)
NoTitleMarker == Done /\ NonBlankInput /\ MarkerStarts(raw) = {}

\* C9: for a non-blank text without a title marker, the status is
\* missing_title exactly when the extractor finds a part in the whole
\* trimmed text and the text holds a Part or Parts keyword; the references
\* are then these parts, in the order of the extractor, each without title.
C9_MissingTitle ==
  NoTitleMarker =>
    /\ result.status = "missing_title"
         <=> (_extract_parts_from_body(raw) # <<>> /\ PART_HINT_RE(raw) # 0)
    /\ result.status = "missing_title"
         => result.references
              = [k \in 1..Len(_extract_parts_from_body(raw)) |->
                   [title |-> <<>>, part |-> _extract_parts_from_body(raw)[k]]]

\* C9 witness: a missing_title result whose keyword is not at the start of
\* the text.
C9_Witness ==
  /\ NoTitleMarker
  /\ result.status = "missing_title"
  /\ PART_HINT_RE(raw) > 1
  /\ result.references # <<>>

\* C10: a non-blank text without a title marker and without a Part or Parts
\* keyword has status no_cfr and no references, whatever numbers and ranges
\* it holds.
C10_NoCfrWithoutKeyword ==
  (NoTitleMarker /\ PART_HINT_RE(raw) = 0) =>
    /\ result.status = "no_cfr"
    /\ result.references = <<>>

\* C10 witness: a no_cfr result for a text that holds a range of numbers.
C10_Witness ==
  /\ NoTitleMarker
  /\ PART_HINT_RE(raw) = 0
  /\ RangesInBody(raw) # <<>>
  /\ result.status = "no_cfr"

(***************************************************************************)
(* Title markers without parts                                             *)
(***************************************************************************)
\* No body of a title segment of the text yields a part.
NoPartInAnyBody ==
  \A k \in 1..Len(TITLE_SEGMENT_RE(raw)) :
    _extract_parts_from_body(TITLE_SEGMENT_RE(raw)[k].body) = <<>>

\* C11: a text with a title marker and no part in any title body has status
\* unparsed and no references; the parts the whole text would give under a
\* Part keyword are not used.
C11_UnparsedWithoutFallback ==
  (Done /\ NonBlankInput /\ MarkerStarts(raw) # {} /\ NoPartInAnyBody) =>
    /\ result.status = "unparsed"
    /\ result.references = <<>>

\* C11 witness: an unparsed result for a text whose Part keyword and number
\* come before its first title marker.
C11_Witness ==
  /\ Done
  /\ NonBlankInput
  /\ MarkerStarts(raw) # {}
  /\ NoPartInAnyBody
  /\ PART_HINT_RE(raw) # 0
  /\ PART_HINT_RE(raw) < MinOf(MarkerStarts(raw))
  /\ _extract_parts_from_body(raw) # <<>>
  /\ result.status = "unparsed"

(***************************************************************************)
(* The parts of one title                                                  *)
(***************************************************************************)
\* C12 (as claimed): extract_parts_for_title returns the parts of the
\* references whose title is the canonical form of the title asked for,
\* given as a number or as a string, in the order of the references and
\* without duplicates.
C12_PartsOfCanonicalTitle ==
  pc = "returned" =>
    /\ title_parts = PartsOfRefs(
                 SelectSeq(result.references,
                           LAMBDA ref : ref.title = _canonical_number(TitleStr(title_arg))))
    /\ \A i, j \in 1..Len(title_parts) : title_parts[i] = title_parts[j] => i = j

(***************************************************************************)
(* Canonical numerals                                                      *)
(***************************************************************************)
\* The numerals the extractor reads in the body of the next title segment:
\* the groups of the ranges of its window, and the numbers of the window.
RangeEnds(ms) == UNION {{ms[k].g1, ms[k].g2} : k \in 1..Len(ms)}

NumeralsOfBody(body) ==
  RangeEnds(RangesInWindow(body))
    \cup Elements(NUMBER_RE_findall(Candidate(BodyText(body))))

\* C13 (as claimed): canonicalization is idempotent on the numerals the
\* extractor reads: the canonical form of a canonical form is itself.
C13_CanonicalIdempotent ==
  (pc = "loop" /\ matches # <<>>) =>
    \A x \in NumeralsOfBody(Head(matches).body) :
      _canonical_number(_canonical_number(x)) = _canonical_number(x)

\* The integer portion of a numeral and what follows it.
IntegerPortion(s) == Slice(s, 1, DigitsEnd(s, 1))
AfterInteger(s) == Slice(s, DigitsEnd(s, 1), Len(s) + 1)

\* A numeral without leading zeros in its integer portion (a lone 0 apart),
\* and either no decimal point or a fraction that does not end in 0.
IsCanonicalNumeral(s) ==
  /\ IntegerPortion(s) # <<>>
  /\ Head(s) = "0" => Len(IntegerPortion(s)) = 1
  /\ \/ AfterInteger(s) = <<>>
     \/ /\ Head(AfterInteger(s)) = "."
        /\ IsIntLiteral(Tail(AfterInteger(s)))
        /\ s[Len(s)] # "0"

\* C14 (as claimed): every title and every part of a result is a canonical
\* numeral (the empty title of a missing_title reference apart).
C14_CanonicalNumerals ==
  Done =>
    \A r \in Elements(result.references) :
      /\ IsCanonicalNumeral(r.part)
      /\ r.title # <<>> => IsCanonicalNumeral(r.title)

FirstBodyDone ==
  pc = "loop" /\ had_cfr_title /\ Len(matches) + 1 = Len(TITLE_SEGMENT_RE(raw))

FirstBody == TITLE_SEGMENT_RE(raw)[1].body

\* The working window of the first body, and what is left of it once the
\* ranges are replaced (line 90).
FirstWindow == Candidate(BodyText(FirstBody))
FirstWithoutRanges == RANGE_RE_sub(FirstWindow, RangesInWindow(FirstBody))

\* a and b, or one of them if they are the same.
Once(a, b) == IF a = b THEN <<a>> ELSE <<a, b>>

HasDecimalEnd(m) == HasDot(m.g1) \/ HasDot(m.g2)

\* C16: a range with a decimal point in one of its ends is not expanded:
\* _expand_range gives its two ends, canonicalized, in the order written,
\* and a body made of such a range has these two parts (normalized again
\* when they are appended, line 85) and no other, however far apart.
C16_DecimalRangeNotExpanded ==
  /\ (pc = "loop" /\ matches # <<>>) =>
       \A k \in 1..Len(RangesInWindow(Head(matches).body)) :
         HasDecimalEnd(RangesInWindow(Head(matches).body)[k])
           => _expand_range(RangesInWindow(Head(matches).body)[k].g1,
                            RangesInWindow(Head(matches).body)[k].g2)
                = <<_canonical_number(RangesInWindow(Head(matches).body)[k].g1),
                    _canonical_number(RangesInWindow(Head(matches).body)[k].g2)>>
  /\ (/\ FirstBodyDone
      /\ Len(RangesInWindow(FirstBody)) = 1
      /\ HasDecimalEnd(RangesInWindow(FirstBody)[1])
      /\ NUMBER_RE_findall(FirstWithoutRanges) = <<>>) =>
       PartsOfRefs(references)
         = Once(_canonical_number(_canonical_number(RangesInWindow(FirstBody)[1].g1)),
                _canonical_number(_canonical_number(RangesInWindow(FirstBody)[1].g2)))

\* C16 witness: a body made of a decimal range whose ends are more than 300
\* apart has given two parts.
C16_Witness ==
  /\ FirstBodyDone
  /\ Len(RangesInWindow(FirstBody)) = 1
  /\ HasDot(RangesInWindow(FirstBody)[1].g1)
  /\ ParseInt(IntegerPortion(RangesInWindow(FirstBody)[1].g2))
       - ParseInt(IntegerPortion(RangesInWindow(FirstBody)[1].g1)) > RANGE_GUARD
  /\ Len(references) = 2

\* The text of the first body from its first Part keyword on, and its first
\* 120 characters.
FirstBodyFromKeyword ==
  Slice(BodyText(FirstBody), PART_HINT_RE(BodyText(FirstBody)),
        Len(BodyText(FirstBody)) + 1)

FirstBodyStart ==
  IF Len(BodyText(FirstBody)) > WINDOW_CHARS
  THEN Slice(BodyText(FirstBody), 1, WINDOW_CHARS + 1)
  ELSE BodyText(FirstBody)

\* C17: the parts of a body are those of its working window alone: of the
\* text from the first Part keyword on when there is one (no number before
\* it is used), and else of the first 120 characters of the trimmed body (no
\* number that starts at offset 120 or later is used); a window without a
\* digit gives no part.
C17_OnlyTheWindow ==
  FirstBodyDone =>
    /\ PART_HINT_RE(BodyText(FirstBody)) # 0 =>
         /\ PartsOfRefs(references) = _extract_parts_from_body(FirstBodyFromKeyword)
         /\ (\A k \in 1..Len(FirstBodyFromKeyword) : ~IsDigit(FirstBodyFromKeyword[k]))
              => references = <<>>
    /\ PART_HINT_RE(BodyText(FirstBody)) = 0 =>
         /\ PartsOfRefs(references) = _extract_parts_from_body(FirstBodyStart)
         /\ (\A k \in 1..Len(FirstBodyStart) : ~IsDigit(FirstBodyStart[k]))
              => references = <<>>

\* C17 witness: a number stands before the Part keyword of the first body,
\* and the body has given parts.
C17_Witness ==
  /\ FirstBodyDone
  /\ PART_HINT_RE(BodyText(FirstBody)) > 1
  /\ NUMBER_RE_findall(Slice(BodyText(FirstBody), 1,
                             PART_HINT_RE(BodyText(FirstBody)))) # <<>>
  /\ references # <<>>

\* A body without keyword has given parts, and a number starts at offset 120
\* of its text.
C17_BeyondWindow ==
  /\ FirstBodyDone
  /\ PART_HINT_RE(BodyText(FirstBody)) = 0
  /\ Len(BodyText(FirstBody)) > WINDOW_CHARS + 1
  /\ IsDigit(BodyText(FirstBody)[WINDOW_CHARS + 1])
  /\ ~IsDigit(BodyText(FirstBody)[WINDOW_CHARS])
  /\ references # <<>>

\* The window of the first body: from its first Part keyword, or its first
\* 120 characters.
FirstBodyWindow ==
  IF PART_HINT_RE(BodyText(FirstBody)) # 0
  THEN FirstBodyFromKeyword
  ELSE FirstBodyStart

\* C18: when the window of a body holds a stop phrase, the parts of the body
\* are those of the text between the start of the window and the first stop
\* phrase: no number or range at or after the stop phrase is used.
C18_NothingAfterStopPhrase ==
  (FirstBodyDone /\ STOP_WORD_RE(FirstBodyWindow) # 0) =>
    PartsOfRefs(references)
      = _extract_parts_from_body(
          Slice(FirstBodyWindow, 1, STOP_WORD_RE(FirstBodyWindow)))

\* C18 witness: a number stands after the first stop phrase of the window of
\* the first body, and the body has given parts.
C18_Witness ==
  /\ FirstBodyDone
  /\ STOP_WORD_RE(FirstBodyWindow) # 0
  /\ NUMBER_RE_findall(Slice(FirstBodyWindow, STOP_WORD_RE(FirstBodyWindow),
                             Len(FirstBodyWindow) + 1)) # <<>>
  /\ references # <<>>

\* The canonical forms of a list of numerals.
CanonicalAll(seq) == [k \in 1..Len(seq) |-> _canonical_number(seq[k])]

\* What the ranges ms give from the k-th on, in the order of the text.
RECURSIVE ExpandedFrom(_, _)
ExpandedFrom(ms, k) ==
  IF k > Len(ms) THEN <<>>
  ELSE CanonicalAll(_expand_range(ms[k].g1, ms[k].g2)) \o ExpandedFrom(ms, k + 1)

\* C19: the parts of a body are, in this order, what its ranges give, range
\* after range in the order of the text, then its single numbers from left
\* to right, each value being kept where it first appears; a body of single
\* numbers gives them in the order of the text.
C19_RangesThenSingles ==
  FirstBodyDone =>
    /\ PartsOfRefs(references)
         = DictFromKeys(ExpandedFrom(RangesInWindow(FirstBody), 1)
                        \o CanonicalAll(NUMBER_RE_findall(FirstWithoutRanges)))
    /\ RangesInWindow(FirstBody) = <<>>
         => PartsOfRefs(references)
              = DictFromKeys(CanonicalAll(NUMBER_RE_findall(FirstWindow)))

\* C19 witness: a single number stands before the first range of the first
\* body, and a value that appears twice has been skipped.
C19_Witness ==
  /\ FirstBodyDone
  /\ RangesInWindow(FirstBody) # <<>>
  /\ NUMBER_RE_findall(Slice(FirstWindow, 1, RangesInWindow(FirstBody)[1].start)) # <<>>
  /\ Len(references)
       < Len(ExpandedFrom(RangesInWindow(FirstBody), 1))
         + Len(NUMBER_RE_findall(FirstWithoutRanges))

\* A standalone number starts at position i of s: a run of digits with no
\* digit before it, which is not the fraction of a number either.
StandaloneAt(s, i) ==
  /\ IsDigit(Ch(s, i))
  /\ ~IsDigit(Ch(s, i - 1))
  /\ ~(Ch(s, i - 1) = "." /\ IsDigit(Ch(s, i - 2)))

\* The number whose run of digits ends before position d: the run, and the
\* decimal fraction that follows it if there is one.
FractionEnd(s, d) ==
  IF Ch(s, d) = "." /\ IsDigit(Ch(s, d + 1)) THEN DigitsEnd(s, d + 1) ELSE d

NumeralAt(s, i) == Slice(s, i, FractionEnd(s, DigitsEnd(s, i)))

\* C20 (as claimed): once the ranges are removed from the window, every
\* standalone number that is left, of any length, is a part of the body.
C20_EveryNumberEmitted ==
  FirstBodyDone =>
    \A i \in 1..Len(FirstWithoutRanges) :
      StandaloneAt(FirstWithoutRanges, i)
        => _canonical_number(NumeralAt(FirstWithoutRanges, i))
             \in Elements(PartsOfRefs(references))

\* C20 (amended): once the ranges are removed from the window, every
\* standalone number that is left and whose integer portion has at most four
\* digits is a part of the body, in canonical form; no part has an integer
\* portion of more than four digits.
C20_EveryShortNumberEmitted ==
  FirstBodyDone =>
    /\ \A i \in 1..Len(FirstWithoutRanges) :
         (/\ StandaloneAt(FirstWithoutRanges, i)
          /\ DigitsEnd(FirstWithoutRanges, i) - i <= MAX_INT_DIGITS)
           => _canonical_number(NumeralAt(FirstWithoutRanges, i))
                \in Elements(PartsOfRefs(references))
    /\ \A r \in Elements(references) :
         Len(IntegerPortion(r.part)) <= MAX_INT_DIGITS

\* C20 witness: ranges have been removed from the window of the first body,
\* and a number of four digits that was left is a part.
C20_Witness ==
  /\ FirstBodyDone
  /\ RangesInWindow(FirstBody) # <<>>
  /\ \E i \in 1..Len(FirstWithoutRanges) :
       /\ StandaloneAt(FirstWithoutRanges, i)
       /\ DigitsEnd(FirstWithoutRanges, i) - i = MAX_INT_DIGITS
       /\ _canonical_number(NumeralAt(FirstWithoutRanges, i))
            \in Elements(PartsOfRefs(references))

\* The segments of raw that the for loop has processed so far.
ProcessedSegments ==
  SubSeq(TITLE_SEGMENT_RE(raw), 1, Len(TITLE_SEGMENT_RE(raw)) - Len(matches))

\* The (title, part) pairs of one segment, in the order of its parts, with
\* the title in canonical form.
PairsOfParts(title, parts) ==
  [k \in 1..Len(parts) |-> [title |-> title, part |-> parts[k]]]

PairsOfSegment(seg) ==
  PairsOfParts(_canonical_number(seg.title), _extract_parts_from_body(seg.body))

\* The pairs of the segments segs[1..n], in textual order.
RECURSIVE PairsOfSegments(_, _)
PairsOfSegments(segs, n) ==
  IF n = 0 THEN <<>>
  ELSE PairsOfSegments(segs, n - 1) \o PairsOfSegment(segs[n])

\* C21: references accumulate across the title segments in first-seen order:
\* at every point of the loop, references is the sequence of the first
\* occurrences of the (canonical title, part) pairs of the segments processed
\* so far, taken in textual order (so a pair seen again is skipped and the
\* earlier entry stays where it is).
C21_FirstSeenAcrossSegments ==
  pc = "loop" =>
    references
      = DictFromKeys(PairsOfSegments(ProcessedSegments, Len(ProcessedSegments)))

\* C21 witness: two segments whose titles are written differently and are
\* the same once canonical have been processed; the later one repeated a
\* part of the earlier one and brought a new part as well.
C21_Witness ==
  /\ pc = "loop"
  /\ Len(ProcessedSegments) >= 2
  /\ \E a \in 1..Len(ProcessedSegments) : \E b \in 1..Len(ProcessedSegments) :
       /\ a < b
       /\ ProcessedSegments[a].title # ProcessedSegments[b].title
       /\ _canonical_number(ProcessedSegments[a].title)
            = _canonical_number(ProcessedSegments[b].title)
       /\ \E p \in Elements(_extract_parts_from_body(ProcessedSegments[b].body)) :
            p \in Elements(_extract_parts_from_body(ProcessedSegments[a].body))
       /\ \E p \in Elements(_extract_parts_from_body(ProcessedSegments[b].body)) :
            p \notin Elements(_extract_parts_from_body(ProcessedSegments[a].body))
  /\ Len(references)
       < Len(PairsOfSegments(ProcessedSegments, Len(ProcessedSegments)))

\* A complete run of digits of s starts at position i: no digit before it.
CompleteRunAt(s, i) == IsDigit(Ch(s, i)) /\ ~IsDigit(Ch(s, i - 1))

\* The complete number tokens of s that start at i: the whole run of digits,
\* alone and with the decimal fraction that follows it.
CompleteTokensAt(s, i) == {Slice(s, i, DigitsEnd(s, i)), NumeralAt(s, i)}

\* The canonical forms of the complete number tokens of s.
CanonicalTokens(s) ==
  {_canonical_number(t) :
     t \in UNION {CompleteTokensAt(s, i) : i \in {j \in 1..Len(s) : CompleteRunAt(s, j)}}}

\* The integers strictly inside the ranges expanded from the window of body.
InsideExpandedRange(body) ==
  UNION {{IntToStr(n) : n \in (Low(RangesInWindow(body)[k]) + 1)
                               ..(High(RangesInWindow(body)[k]) - 1)} :
           k \in {j \in 1..Len(RangesInWindow(body)) :
                    WithinGuard(RangesInWindow(body)[j])}}

\* C22: no part is a fragment of a longer run of digits of the input: every
\* part of the first body is the canonical form of a complete number token of
\* the input or an integer strictly inside an expanded range, whether or not
\* the body is longer than the window.
C22_NoFragments ==
  FirstBodyDone =>
    \A p \in Elements(PartsOfRefs(references)) :
      \/ p \in CanonicalTokens(raw)
      \/ p \in InsideExpandedRange(FirstBody)

\* The same for the bodies that fit in the window.
C22_NoFragmentsInShortBodies ==
  (FirstBodyDone /\ Len(BodyText(FirstBody)) <= WINDOW_CHARS) =>
    \A p \in Elements(PartsOfRefs(references)) :
      \/ p \in CanonicalTokens(raw)
      \/ p \in InsideExpandedRange(FirstBody)

\* The files listed in a sequence of failures.
FailedFiles(failures) == {failures[k].path : k \in 1..Len(failures)}

\* C23: when run returns, every file the loop processed is accounted for
\* exactly once: inserted + failed is the number of files processed, and no
\* file is both counted in inserted and listed in the failures.
C23_EveryFileOnce ==
  insert.pc = "returned" =>
    /\ insert.returned.inserted + insert.returned.failed = PathsOf(insert)
    /\ insert.returned.inserted = Len(insert.counted)
    /\ Elements(insert.counted) \cap FailedFiles(insert.returned.failures) = {}

\* The same for the runs in which neither executemany nor commit raised.
C23_EveryFileOnceWithoutDatabaseErrors ==
  (/\ insert.pc = "returned"
   /\ \A k \in 1..Len(insert.failures) : insert.failures[k].error # "SQLite") =>
    /\ insert.returned.inserted + insert.returned.failed = PathsOf(insert)
    /\ insert.returned.inserted = Len(insert.counted)
    /\ Elements(insert.counted) \cap FailedFiles(insert.returned.failures) = {}

\* How many of the documents docs have an id and the parse status s.
WithStatus(docs, s) ==
  Cardinality({k \in 1..Len(docs) : docs[k].has_id /\ StatusOf(docs[k].cfrPart) = s})

\* C24, on the states: with dry_run nothing is given to cur.execute and
\* upserted stays 0, while parse_status counts every document with an id that
\* was processed; without dry_run, upserted and failed together count the
\* documents processed.
C24_Counts ==
  /\ ingest.dry_run =>
       /\ ingest.executed = <<>>
       /\ ingest.upserted = 0
       /\ \A s \in Statuses : ingest.parse_status[s] = WithStatus(ingest.seen, s)
  /\ ~ingest.dry_run => ingest.upserted + ingest.failed = Len(ingest.seen)

\* C24, on the steps: without dry_run, a step that processes a document
\* increments exactly one of upserted and failed, by one.
C24_OneOfUpsertedAndFailed ==
  (~ingest.dry_run /\ Len(ingest'.seen) = Len(ingest.seen) + 1) =>
     \/ ingest'.upserted = ingest.upserted + 1 /\ ingest'.failed = ingest.failed
     \/ ingest'.upserted = ingest.upserted /\ ingest'.failed = ingest.failed + 1

\* C24: with dry_run no database statement is executed and upserted is 0,
\* while the parse statuses of the documents with an id are counted; without
\* dry_run every document increments exactly one of upserted and failed.
C24_DryRunExecutesNothing ==
  [](ingest.pc \in {"loop", "returned", "raised"} => C24_Counts)
    /\ [][C24_OneOfUpsertedAndFailed]_vars

\* C24 witness: a dry run has returned after documents with an id, of several
\* parse statuses, and a document without id.
C24_Witness ==
  /\ ingest.pc = "returned"
  /\ ingest.dry_run
  /\ \E k \in 1..Len(ingest.seen) : ~ingest.seen[k].has_id
  /\ Cardinality({s \in Statuses : ingest.parse_status[s] > 0}) >= 2
  /\ ingest.unparsed_examples # <<>>

\* A response with a status other than 429 and an X-RateLimit-Remaining of at
\* least 1.
Acceptable(resp) ==
  /\ resp.status_code # TOO_MANY_REQUESTS
  /\ resp.remaining.present
  /\ IsIntText(resp.remaining.text)
  /\ IntOfText(resp.remaining.text) >= 1

\* A response whose X-RateLimit-Remaining is absent or an integer.
WellFormed(resp) == ~resp.remaining.present \/ IsIntText(resp.remaining.text)

\* What make_request does with the response it has just received, as
\* claimed: it returns it if it is acceptable, and otherwise sleeps and is
\* about to send the same request again.
AnsweredAsClaimed ==
  request.pc = "got" =>
    /\ Acceptable(request.resp)
         => request'.pc = "returned" /\ request'.returned = request.resp
    /\ ~Acceptable(request.resp)
         => /\ request'.pc = "get"
            /\ request'.slept > request.slept
            /\ request'.args = request.args

\* C25: make_request returns a response only when it is acceptable, and at
\* once when it is; on any other response it waits and sends the same
\* request again.
C25_ReturnsFirstAcceptableResponse ==
  [](request.pc = "returned" => Acceptable(request.returned))
    /\ [](\A k \in 1..Len(request.sent) : request.sent[k] = request.args)
    /\ [][AnsweredAsClaimed]_vars

\* The same for the responses whose X-RateLimit-Remaining is absent or an
\* integer.
C25_ReturnsFirstAcceptableOfWellFormed ==
  [](request.pc = "returned" => Acceptable(request.returned))
    /\ [](\A k \in 1..Len(request.sent) : request.sent[k] = request.args)
    /\ [][WellFormed(request.resp) => AnsweredAsClaimed]_vars

\* The documents 1..n, in order.
AllDocuments(n) == [k \in 1..n |-> k]

\* The page numbers seq start at 1 and go up one by one, a page being
\* requested again only by make_request.
PagesInOrder(seq) ==
  /\ seq # <<>> => seq[1] = 1
  /\ \A k \in 1..(Len(seq) - 1) : seq[k + 1] \in {seq[k], seq[k] + 1}
  /\ Cardinality({k \in 1..(Len(seq) - 1) : seq[k + 1] = seq[k]}) <= fetch.retries

\* C26, when it returns: the documents of the docket, each once and in page
\* order, after requests of the pages 1, 2, ... up to the first page with
\* fewer than page_size items.
ReturnsEveryDocumentOnce ==
  fetch.pc = "returned" =>
    /\ fetch.returned = AllDocuments(fetch.server_docs)
    /\ PagesInOrder(fetch.requested)
    /\ fetch.page = (fetch.server_docs \div fetch.page_size) + 1
    /\ fetch.requested[Len(fetch.requested)] = fetch.page
    /\ fetch.resp.status_code = OK
    /\ Len(fetch.resp.items) = fetch.server_docs % fetch.page_size

\* C26, when it raises: after a response that is not a 200, and without a list.
RaisesOnApiError ==
  fetch.pc = "raised" => fetch.resp.status_code # OK /\ fetch.returned = <<>>

\* C26, on the steps: a response that make_request returns and that is not a
\* 200 ends the call with an error.
ErrorEndsTheCall ==
  (fetch'.resp.status_code # OK /\ ~Retried(fetch'.resp)
     /\ Len(fetch'.requested) > Len(fetch.requested))
    => fetch'.pc = "raised"

=============================================================================
